---- MODULE Spec2Model ----
(***************************************************************************)
(* A model of the SIM7000 driver (github.com/LassiHeikkila/SIM7000).       *)
(*                                                                         *)
(* Strings are sequences of one-character strings, so that the Go string   *)
(* functions the driver uses (TrimSpace, HasPrefix, TrimPrefix, Contains,  *)
(* bytes.Join, bufio.Scanner's line splitting) are computed, not assumed.  *)
(*                                                                         *)
(* The module holds several specifications over one set of variables:      *)
(*   SpecParse  ParseCIPSTATUSResp applied to bounded replies              *)
(*   Spec       RunChatScript against a device that answers freely         *)
(*   SpecNew    NewSIM7000: status query, then the bring-up chat script    *)
(*   SpecDial   tcp.dialTCP4 against a device that answers freely          *)
(*   SpecWrite  TCPConn.Write of a bounded payload                          *)
(*   SpecRead   TCPConn.Read, the deadline setters and TCPConn.Close        *)
(*   SpecTwo    SendATCommandTwoResponses applied to bounded replies        *)
(*   SpecConc   two callers of one module, the channel between them         *)
(*   SpecHttps  https.Client: NewClient, uploadCert and RoundTrip           *)
(*   SpecDNS    parseDNSGIPResp applied to bounded replies                  *)
(* SpecFair, SpecDialFair and SpecHttpsFair add fairness to Spec, SpecDial  *)
(* and SpecHttps.                                                          *)
(* A specification leaves the variables of the others at their idle value. *)
(***************************************************************************)
EXTENDS Integers, Sequences, FiniteSets, TLC

VARIABLES
    \* ParseCIPSTATUSResp harness
    pVersion,     \* "lines" (module/status.go) or "bytes" (tcp/parsing.go)
    pInput,       \* the reply lines handed to the parser
    pResult,      \* the CIPStatus returned
    pDone,        \* the parser has returned
    \* RunChatScript
    version,      \* "at" (warthog618/modem/at) or "serial" (tarm/serial) driver
    script,       \* the ChatScript being run: [Aborts, Commands]
    pc,           \* where RunChatScript stands
    i,            \* index of the current step (1-based)
    retriesLeft,  \* retriesLeft of the current step
    output,       \* the output collected so far
    err,          \* the error RunChatScript returned ("nil" for none)
    sent,         \* history: the commands written to the channel, in order
    rcvd,         \* history: what came back for each of them, in order
    \* NewSIM7000
    settings,     \* the Settings NewSIM7000 is called with
    npc,          \* where NewSIM7000 stands
    state,        \* the CIPStatus GetIPStatus decoded
    module,       \* what NewSIM7000 returned: "s" (the module) or "nil"
    nsent,        \* history: the commands NewSIM7000 itself has written
    \* tcp.dialTCP4
    address,      \* the address dialled
    dnsCfg,       \* which of DNS1, DNS2 are registered settings
    dpc,          \* where dialTCP4 stands
    dm,           \* the module GetModule opened: "none", "open" or "closed"
    ip,           \* the ip dialTCP4 connects to
    port,         \* the port parseAddress returned
    nDNSGIP,      \* history: how many +CDNSGIP commands were sent
    nCIPSTART,    \* history: how many +CIPSTART commands were sent
    nGarbage,     \* history: how many +CIPSTART replies were garbage
    dreply,       \* history: the last reply dialTCP4 looked at
    dconn,        \* the *TCPConn dialTCP4 returned (<<>> for nil)
    derr,         \* the error dialTCP4 returned ("nil" for none)
    \* TCPConn.Write
    wb,           \* the payload b
    wpc,          \* where Write stands
    chunkSize,    \* what parseDataSize made of the reply to +CIPSEND?
    wi,           \* the loop index i
    tot_n,        \* tot_n
    wn,           \* the named result n
    werr,         \* the error Write returned ("nil" for none)
    nAnnounce,    \* history: how many +CIPSEND=<size> commands were sent
    chunks,       \* history: the raw chunks written to the module, in order
    announced,    \* history: the size announced by +CIPSEND=<size> for each of them
    acked,        \* history: payload bytes of the chunks answered SEND OK
    wlast,        \* history: the last thing the device did
    \* TCPConn.Read and the session it is called on
    conn,         \* the fields of the TCPConn
    rlen,         \* len(b) of the buffer Read is given
    rb,           \* the bytes b[0:len(b)] as the caller of Read sees them
    rpc,          \* where Read stands
    rn,           \* the count Read returned
    rerr,         \* the error Read returned ("nil" for none)
    rreply,       \* history: the reply to the last +CIPRXGET=4 query
    nQuery,       \* history: how many +CIPRXGET=4 queries were sent
    nFetch,       \* history: how many +CIPRXGET=2 fetches were sent
    nZero,        \* history: how many Reads in a row found zero bytes pending
    rfetch,       \* history: the reply to the +CIPRXGET=2 fetch of the last Read and
                  \* the slice buf parseTCPDataCIPRXGET made of it
    cver,         \* the module behind the session: "at" or "serial" driver
    nClose,       \* history: how many times Close was called on the session
    csent,        \* history: the commands the Close calls have sent
    nPortClose,   \* history: how many times the serial port was closed
    cret,         \* what the last Close returned ("none" before the first)
    \* SendATCommandTwoResponses harness
    tResponse,    \* the bytes ReadATResponse returned
    tReply1,      \* expectedReply1
    tReply2,      \* expectedReply2
    tWriteErr,    \* the write of the command failed
    tResult,      \* the three values returned
    tDone,        \* the function has returned
    \* callers sharing one module
    mver,         \* the module: "at" or "serial" driver
    cop,          \* the operation each caller is in ("none" when in none)
    cstep,        \* the step of its operation each caller is to take next
    mutex,        \* the caller holding s.mutex (0 when free)
    busy,         \* the caller whose command the at library is running (0 for none)
    wire,         \* the lines the device has sent that nobody has read yet
    misread,      \* history: who has read a line another reader was waiting for
    \* https.Client
    inds,         \* the indication handlers of the modem: prefix -> who registered it
    ncpc,         \* where NewClient stands
    ncsel,        \* the case NewClient's select has taken
    ncret,        \* what NewClient returned: "nil" or "c" ("none" before)
    nctx,         \* the context NewClient was given is done
    chans,        \* the channels ready, appPdpChan, downloadDone: "open" or "closed"
    pdpActive,    \* pdpActive
    cert,         \* settings.CertPath is set, and the size of the file
    uperr,        \* the error uploadCert returned ("none" when not called)
    fsent,        \* history: what uploadCert has written to the channel
    rt,           \* the RoundTrip calls: where each stands and its locals
    panicked,     \* the panic the program died of ("none" while it runs)
    dupReg,       \* history: AddIndication was called for a prefix with a handler
    \* parseDNSGIPResp harness
    gVersion,     \* "bytes" (tcp/parsing.go) or "lines" (the string-slice version)
    gGiven,       \* what the reply was built from: its kind and the addresses in it
    gInput,       \* the reply lines handed to the parser
    gResult,      \* the values returned
    gDone         \* the parser has returned

parseVars == <<pVersion, pInput, pResult, pDone>>
chatVars == <<version, script, pc, i, retriesLeft, output, err, sent, rcvd>>
newVars == <<settings, npc, state, module, nsent>>
dialVars == <<address, dnsCfg, dpc, dm, ip, port, nDNSGIP, nCIPSTART, nGarbage,
              dreply, dconn, derr>>
writeVars == <<wb, wpc, chunkSize, wi, tot_n, wn, werr, nAnnounce, chunks, announced,
               acked, wlast>>
readVars == <<conn, rlen, rb, rpc, rn, rerr, rreply, nQuery, nFetch, nZero, rfetch,
              cver, nClose, csent, nPortClose, cret>>
tcpVars == <<dialVars, writeVars, readVars>>
twoVars == <<tResponse, tReply1, tReply2, tWriteErr, tResult, tDone>>
concVars == <<mver, cop, cstep, mutex, busy, wire, misread>>
httpsVars == <<inds, ncpc, ncsel, ncret, nctx, chans, pdpActive, cert, uperr, fsent, rt,
               panicked, dupReg>>
dnsVars == <<gVersion, gGiven, gInput, gResult, gDone>>
moreVars == <<twoVars, concVars, httpsVars, dnsVars>>
nonDialVars == <<parseVars, chatVars, newVars, writeVars, readVars, moreVars>>
nonWriteVars == <<parseVars, chatVars, newVars, dialVars, readVars, moreVars>>
nonReadVars == <<parseVars, chatVars, newVars, dialVars, writeVars, moreVars>>
vars == <<parseVars, chatVars, newVars, tcpVars, moreVars>>
nonParseVars == <<chatVars, newVars, tcpVars, moreVars>>
nonChatVars == <<parseVars, newVars, tcpVars, moreVars>>

(***************************************************************************)
(* Bounds                                                                  *)
(***************************************************************************)
MaxLines == 2        \* lines in a +CIPSTATUS reply
MaxSteps == 2        \* commands in a chat script
MaxRetries == 2      \* largest Retries of a chat script step

\* all sequences over S of length at most n
SeqsUpTo(S, n) == UNION { [1..k -> S] : k \in 0..n }

(***************************************************************************)
(* CIPStatus (module/status.go, tcp/types.go)                              *)
(***************************************************************************)
IPStatusUnknown == 0
IPInitial == 1
IPStart == 2
IPConfig == 3
IPGPRSAct == 4
IPStatus == 5
IPProcessing == 6
IPConnectOK == 7
IPClosing == 8
IPClosed == 9
IPPDPDeact == 10

(***************************************************************************)
(* The idle values of each group of variables                              *)
(***************************************************************************)
ParseIdle ==
    /\ pVersion = "none"
    /\ pInput = <<>>
    /\ pResult = IPStatusUnknown
    /\ pDone = FALSE

ChatNotCalled ==
    /\ script = [Aborts |-> <<>>, Commands |-> <<>>]
    /\ pc = "idle"
    /\ i = 0
    /\ retriesLeft = 0
    /\ output = <<>>
    /\ err = "nil"
    /\ sent = <<>>
    /\ rcvd = <<>>

ChatIdle == version = "none" /\ ChatNotCalled

NewIdle ==
    /\ settings = "none"
    /\ npc = "idle"
    /\ state = IPStatusUnknown
    /\ module = "none"
    /\ nsent = <<>>

DialIdle ==
    /\ address = <<>>
    /\ dnsCfg = "none"
    /\ dpc = "idle"
    /\ dm = "none"
    /\ ip = <<>>
    /\ port = 0
    /\ nDNSGIP = 0
    /\ nCIPSTART = 0
    /\ nGarbage = 0
    /\ dreply = <<>>
    /\ dconn = <<>>
    /\ derr = "nil"

WriteIdle ==
    /\ wb = <<>>
    /\ wpc = "idle"
    /\ chunkSize = 0
    /\ wi = 0
    /\ tot_n = 0
    /\ wn = 0
    /\ werr = "nil"
    /\ nAnnounce = 0
    /\ chunks = <<>>
    /\ announced = <<>>
    /\ acked = 0
    /\ wlast = [kind |-> "none", reply |-> <<>>]

ReadIdle ==
    /\ conn = <<>>
    /\ rlen = 0
    /\ rb = <<>>
    /\ rpc = "idle"
    /\ rn = 0
    /\ rerr = "nil"
    /\ rreply = <<>>
    /\ nQuery = 0
    /\ nFetch = 0
    /\ nZero = 0
    /\ rfetch = [sent |-> FALSE, reply |-> <<>>, buf |-> <<>>]
    /\ cver = "none"
    /\ nClose = 0
    /\ csent = <<>>
    /\ nPortClose = 0
    /\ cret = "none"

TcpIdle == DialIdle /\ WriteIdle /\ ReadIdle

TwoIdle ==
    /\ tResponse = <<>>
    /\ tReply1 = <<>>
    /\ tReply2 = <<>>
    /\ tWriteErr = FALSE
    /\ tResult = [reply1 |-> FALSE, reply2 |-> FALSE, err |-> "nil"]
    /\ tDone = FALSE

ConcIdle ==
    /\ mver = "none"
    /\ cop = <<>>
    /\ cstep = <<>>
    /\ mutex = 0
    /\ busy = 0
    /\ wire = <<>>
    /\ misread = "none"

HttpsIdle ==
    /\ inds = <<>>
    /\ ncpc = "idle"
    /\ ncsel = "none"
    /\ ncret = "none"
    /\ nctx = FALSE
    /\ chans = <<>>
    /\ pdpActive = FALSE
    /\ cert = [set |-> FALSE, len |-> 0]
    /\ uperr = "none"
    /\ fsent = <<>>
    /\ rt = <<>>
    /\ panicked = "none"
    /\ dupReg = FALSE

DnsIdle ==
    /\ gVersion = "none"
    /\ gGiven = [kind |-> "none", ip1 |-> <<>>, ip2 |-> <<>>]
    /\ gInput = <<>>
    /\ gResult = [ip1 |-> <<>>, ip2 |-> <<>>, err |-> "nil"]
    /\ gDone = FALSE

MoreIdle == TwoIdle /\ ConcIdle /\ HttpsIdle /\ DnsIdle

(***************************************************************************)
(* Go string functions                                                     *)
(***************************************************************************)
\* unicode.IsSpace on the ASCII range the device uses
IsSpace(c) == c \in {" ", "\t", "\n", "\r", "\f"}

RECURSIVE TrimLeftSpace(_)
TrimLeftSpace(s) ==
    IF s = <<>> THEN s
    ELSE IF IsSpace(Head(s)) THEN TrimLeftSpace(Tail(s)) ELSE s

RECURSIVE TrimRightSpace(_)
TrimRightSpace(s) ==
    IF s = <<>> THEN s
    ELSE IF IsSpace(s[Len(s)]) THEN TrimRightSpace(SubSeq(s, 1, Len(s) - 1)) ELSE s

\* strings.TrimSpace
TrimSpace(s) == TrimRightSpace(TrimLeftSpace(s))

\* strings.HasPrefix
HasPrefix(s, prefix) ==
    Len(s) >= Len(prefix) /\ SubSeq(s, 1, Len(prefix)) = prefix

\* strings.TrimPrefix
TrimPrefix(s, prefix) ==
    IF HasPrefix(s, prefix) THEN SubSeq(s, Len(prefix) + 1, Len(s)) ELSE s

\* strings.Contains / bytes.Contains
Contains(s, substr) ==
    \E k \in 0..(Len(s) - Len(substr)) : SubSeq(s, k + 1, k + Len(substr)) = substr

\* bytes.Join(lines, sep)
RECURSIVE Join(_, _)
Join(lines, sep) ==
    IF lines = <<>> THEN <<>>
    ELSE IF Len(lines) = 1 THEN lines[1]
    ELSE lines[1] \o sep \o Join(Tail(lines), sep)

\* bufio.ScanLines: the text up to the next "\n" with one trailing "\r"
\* dropped; a final line without "\n" is a line too, an empty rest is not.
DropCR(line) ==
    IF line /= <<>> /\ line[Len(line)] = "\r" THEN SubSeq(line, 1, Len(line) - 1)
    ELSE line

RECURSIVE ScanLinesFrom(_, _)
ScanLinesFrom(b, cur) ==
    IF b = <<>> THEN (IF cur = <<>> THEN <<>> ELSE <<DropCR(cur)>>)
    ELSE IF Head(b) = "\n" THEN <<DropCR(cur)>> \o ScanLinesFrom(Tail(b), <<>>)
    ELSE ScanLinesFrom(Tail(b), Append(cur, Head(b)))

ScanLines(b) == ScanLinesFrom(b, <<>>)

(***************************************************************************)
(* ParseCIPSTATUSResp (module/status.go, tcp/parsing.go)                   *)
(***************************************************************************)
StatePrefix == <<"S", "T", "A", "T", "E", ":">>

\* the switch over the trimmed token after "STATE:", with the mistake of
\* folding the closing states into the closed ones
cipStateOfClosingAsClosed(st) ==
    CASE st = <<"I", "P", " ", "I", "N", "I", "T", "I", "A", "L">> -> IPInitial
      [] st = <<"I", "P", " ", "S", "T", "A", "R", "T">> -> IPStart
      [] st = <<"I", "P", " ", "C", "O", "N", "F", "I", "G">> -> IPConfig
      [] st = <<"I", "P", " ", "G", "P", "R", "S", "A", "C", "T">> -> IPGPRSAct
      [] st = <<"I", "P", " ", "S", "T", "A", "T", "U", "S">> -> IPStatus
      [] st \in { <<"T", "C", "P", " ", "C", "O", "N", "N", "E", "C", "T", "I", "N", "G">>,
                     <<"U", "D", "P", " ", "C", "O", "N", "N", "E", "C", "T", "I", "N", "G">>,
                     <<"S", "E", "R", "V", "E", "R", " ", "L", "I", "S", "T", "E", "N", "I", "N", "G">>,
                     <<"I", "P", " ", "P", "R", "O", "C", "E", "S", "S", "I", "N", "G">> } -> IPProcessing
      [] st = <<"C", "O", "N", "N", "E", "C", "T", " ", "O", "K">> -> IPConnectOK
      [] st \in { <<"T", "C", "P", " ", "C", "L", "O", "S", "I", "N", "G">>,
                     <<"U", "D", "P", " ", "C", "L", "O", "S", "I", "N", "G">>,
                     <<"T", "C", "P", " ", "C", "L", "O", "S", "E", "D">>,
                     <<"U", "D", "P", " ", "C", "L", "O", "S", "E", "D">> } -> IPClosed
      [] st = <<"P", "D", "P", " ", "D", "E", "A", "C", "T">> -> IPPDPDeact
      [] OTHER -> IPStatusUnknown

\* the switch with the mistake of a default that falls through to the last case
cipStateOfDefaultFallsThrough(st) ==
    CASE st = <<"I", "P", " ", "I", "N", "I", "T", "I", "A", "L">> -> IPInitial
      [] st = <<"I", "P", " ", "S", "T", "A", "R", "T">> -> IPStart
      [] st = <<"I", "P", " ", "C", "O", "N", "F", "I", "G">> -> IPConfig
      [] st = <<"I", "P", " ", "G", "P", "R", "S", "A", "C", "T">> -> IPGPRSAct
      [] st = <<"I", "P", " ", "S", "T", "A", "T", "U", "S">> -> IPStatus
      [] st \in { <<"T", "C", "P", " ", "C", "O", "N", "N", "E", "C", "T", "I", "N", "G">>,
                     <<"U", "D", "P", " ", "C", "O", "N", "N", "E", "C", "T", "I", "N", "G">>,
                     <<"S", "E", "R", "V", "E", "R", " ", "L", "I", "S", "T", "E", "N", "I", "N", "G">>,
                     <<"I", "P", " ", "P", "R", "O", "C", "E", "S", "S", "I", "N", "G">> } -> IPProcessing
      [] st = <<"C", "O", "N", "N", "E", "C", "T", " ", "O", "K">> -> IPConnectOK
      [] st \in { <<"T", "C", "P", " ", "C", "L", "O", "S", "I", "N", "G">>,
                     <<"U", "D", "P", " ", "C", "L", "O", "S", "I", "N", "G">> } -> IPClosing
      [] st \in { <<"T", "C", "P", " ", "C", "L", "O", "S", "E", "D">>,
                     <<"U", "D", "P", " ", "C", "L", "O", "S", "E", "D">> } -> IPClosed
      [] OTHER -> IPPDPDeact

\* the switch over the trimmed token after "STATE:"
cipStateOf(st) ==
    CASE st = <<"I", "P", " ", "I", "N", "I", "T", "I", "A", "L">> -> IPInitial
      [] st = <<"I", "P", " ", "S", "T", "A", "R", "T">> -> IPStart
      [] st = <<"I", "P", " ", "C", "O", "N", "F", "I", "G">> -> IPConfig
      [] st = <<"I", "P", " ", "G", "P", "R", "S", "A", "C", "T">> -> IPGPRSAct
      [] st = <<"I", "P", " ", "S", "T", "A", "T", "U", "S">> -> IPStatus
      [] st \in { <<"T", "C", "P", " ", "C", "O", "N", "N", "E", "C", "T", "I", "N", "G">>,
                     <<"U", "D", "P", " ", "C", "O", "N", "N", "E", "C", "T", "I", "N", "G">>,
                     <<"S", "E", "R", "V", "E", "R", " ", "L", "I", "S", "T", "E", "N", "I", "N", "G">>,
                     <<"I", "P", " ", "P", "R", "O", "C", "E", "S", "S", "I", "N", "G">> } -> IPProcessing
      [] st = <<"C", "O", "N", "N", "E", "C", "T", " ", "O", "K">> -> IPConnectOK
      [] st \in { <<"T", "C", "P", " ", "C", "L", "O", "S", "I", "N", "G">>,
                     <<"U", "D", "P", " ", "C", "L", "O", "S", "I", "N", "G">> } -> IPClosing
      [] st \in { <<"T", "C", "P", " ", "C", "L", "O", "S", "E", "D">>,
                     <<"U", "D", "P", " ", "C", "L", "O", "S", "E", "D">> } -> IPClosed
      [] st = <<"P", "D", "P", " ", "D", "E", "A", "C", "T">> -> IPPDPDeact
      [] OTHER -> IPStatusUnknown

\* the scan with the mistake of going on after a STATE line whose token is
\* not in the table, so that a later STATE line can decide
RECURSIVE parseStateSkipUnknown(_, _)
parseStateSkipUnknown(resp, n) ==
    IF n > Len(resp) THEN IPStatusUnknown
    ELSE LET line == TrimSpace(resp[n]) IN
         IF HasPrefix(line, StatePrefix)
            /\ cipStateOf(TrimSpace(TrimPrefix(line, StatePrefix))) /= IPStatusUnknown
         THEN cipStateOf(TrimSpace(TrimPrefix(line, StatePrefix)))
         ELSE parseStateSkipUnknown(resp, n + 1)

\* the for loop of ParseCIPSTATUSResp from line i on (1-based)
RECURSIVE parseStateFrom(_, _)
parseStateFrom(resp, n) ==
    IF n > Len(resp) THEN IPStatusUnknown
    ELSE LET line == TrimSpace(resp[n]) IN
         IF HasPrefix(line, StatePrefix)
         THEN cipStateOf(TrimSpace(TrimPrefix(line, StatePrefix)))
         ELSE parseStateFrom(resp, n + 1)

\* module.ParseCIPSTATUSResp(resp []string)
ParseCIPSTATUSResp(resp) == parseStateFrom(resp, 1)

\* tcp.ParseCIPSTATUSResp(b []byte): the same scan over bufio.Scanner's lines
ParseCIPSTATUSRespBytes(b) == parseStateFrom(ScanLines(b), 1)

(***************************************************************************)
(* RunChatScript (module/sim7000e.go, both drivers)                        *)
(*                                                                         *)
(* A step is [Command, Response, Retries]; its Timeout only bounds how     *)
(* long the driver waits, and what has arrived by then is the reply the    *)
(* device is free to choose here.  With the at driver a reply is the list  *)
(* of information lines modem.Command returns, or a command error; with    *)
(* the serial driver it is the bytes ReadATResponse joins from the lines   *)
(* read, and there is never an error.                                      *)
(***************************************************************************)
\* containsAbortTerm of the at driver: some line contains some abort term
containsAbortTermAT(aborts, response) ==
    \E l \in 1..Len(response) : \E t \in 1..Len(aborts) :
        Contains(response[l], aborts[t])

\* containsAbortTerm of the serial driver: the reply contains some abort term
containsAbortTermSerial(aborts, response) ==
    \E t \in 1..Len(aborts) : Contains(response, aborts[t])

containsAbortTerm(v, aborts, response) ==
    IF v = "at" THEN containsAbortTermAT(aborts, response)
    ELSE containsAbortTermSerial(aborts, response)

\* containsResponse of the at driver / strings.Contains of the serial driver
containsResponse(v, response, keyword) ==
    IF v = "at" THEN \E j \in 1..Len(response) : Contains(response[j], keyword)
    ELSE Contains(response, keyword)

\* what the driver hands to RunChatScript for the lines the device sent
respOf(v, lines) == IF v = "at" THEN lines ELSE Join(lines, <<"\n">>)

\* tryAtCommand with the abort check made only for replies that lack the
\* expected substring
tryAtCommandMatchBeforeAbort(v, scr, idx, rl, out, resp, cmdErr) ==
    LET step == scr.Commands[idx]
        retry == [next |-> "tryAtCommand", err |-> "nil", retriesLeft |-> rl - 1]
    IN
    IF cmdErr
    THEN (IF rl - 1 > 0 THEN retry @@ [output |-> out]
          ELSE [next |-> "return", err |-> "command", retriesLeft |-> rl - 1, output |-> out])
    ELSE
    LET out2 == out \o resp IN
    IF step.Response = <<>> \/ containsResponse(v, resp, step.Response)
    THEN [next |-> "continue", err |-> "nil", retriesLeft |-> rl, output |-> out2]
    ELSE IF containsAbortTerm(v, scr.Aborts, resp)
    THEN [next |-> "return", err |-> "abort", retriesLeft |-> rl, output |-> out2]
    ELSE IF rl - 1 > 0 THEN retry @@ [output |-> out2]
    ELSE [next |-> "return", err |-> "unexpected", retriesLeft |-> rl - 1, output |-> out2]

\* tryAtCommand with an abort term treated like a missing expected substring:
\* retried while retries are left
tryAtCommandAbortRetried(v, scr, idx, rl, out, resp, cmdErr) ==
    LET step == scr.Commands[idx]
        retry == [next |-> "tryAtCommand", err |-> "nil", retriesLeft |-> rl - 1]
    IN
    IF cmdErr
    THEN (IF rl - 1 > 0 THEN retry @@ [output |-> out]
          ELSE [next |-> "return", err |-> "command", retriesLeft |-> rl - 1, output |-> out])
    ELSE
    LET out2 == out \o resp IN
    IF containsAbortTerm(v, scr.Aborts, resp)
    THEN (IF rl - 1 > 0 THEN retry @@ [output |-> out2]
          ELSE [next |-> "return", err |-> "abort", retriesLeft |-> rl - 1, output |-> out2])
    ELSE IF step.Response = <<>>
    THEN [next |-> "continue", err |-> "nil", retriesLeft |-> rl, output |-> out2]
    ELSE IF ~containsResponse(v, resp, step.Response)
    THEN (IF rl - 1 > 0 THEN retry @@ [output |-> out2]
          ELSE [next |-> "return", err |-> "unexpected", retriesLeft |-> rl - 1, output |-> out2])
    ELSE [next |-> "continue", err |-> "nil", retriesLeft |-> rl, output |-> out2]

\* tryAtCommand with the retry test off by one (retriesLeft >= 0)
tryAtCommandRetryOffByOne(v, scr, idx, rl, out, resp, cmdErr) ==
    LET step == scr.Commands[idx]
        retry == [next |-> "tryAtCommand", err |-> "nil", retriesLeft |-> rl - 1]
    IN
    IF cmdErr
    THEN (IF rl - 1 > 0 THEN retry @@ [output |-> out]
          ELSE [next |-> "return", err |-> "command", retriesLeft |-> rl - 1, output |-> out])
    ELSE
    LET out2 == out \o resp IN
    IF containsAbortTerm(v, scr.Aborts, resp)
    THEN [next |-> "return", err |-> "abort", retriesLeft |-> rl, output |-> out2]
    ELSE IF step.Response = <<>>
    THEN [next |-> "continue", err |-> "nil", retriesLeft |-> rl, output |-> out2]
    ELSE IF ~containsResponse(v, resp, step.Response)
    THEN (IF rl - 1 >= 0 THEN retry @@ [output |-> out2]
          ELSE [next |-> "return", err |-> "unexpected", retriesLeft |-> rl - 1, output |-> out2])
    ELSE [next |-> "continue", err |-> "nil", retriesLeft |-> rl, output |-> out2]

\* tryAtCommand with the retry test after a command error off by one
\* (retriesLeft >= 0)
tryAtCommandErrorRetryOffByOne(v, scr, idx, rl, out, resp, cmdErr) ==
    LET step == scr.Commands[idx]
        retry == [next |-> "tryAtCommand", err |-> "nil", retriesLeft |-> rl - 1]
    IN
    IF cmdErr
    THEN (IF rl - 1 >= 0 THEN retry @@ [output |-> out]
          ELSE [next |-> "return", err |-> "command", retriesLeft |-> rl - 1, output |-> out])
    ELSE
    LET out2 == out \o resp IN
    IF containsAbortTerm(v, scr.Aborts, resp)
    THEN [next |-> "return", err |-> "abort", retriesLeft |-> rl, output |-> out2]
    ELSE IF step.Response = <<>>
    THEN [next |-> "continue", err |-> "nil", retriesLeft |-> rl, output |-> out2]
    ELSE IF ~containsResponse(v, resp, step.Response)
    THEN (IF rl - 1 > 0 THEN retry @@ [output |-> out2]
          ELSE [next |-> "return", err |-> "unexpected", retriesLeft |-> rl - 1, output |-> out2])
    ELSE [next |-> "continue", err |-> "nil", retriesLeft |-> rl, output |-> out2]

\* tryAtCommand that goes on to the next step when the retries are used up
tryAtCommandSkipsFailedStep(v, scr, idx, rl, out, resp, cmdErr) ==
    LET step == scr.Commands[idx]
        retry == [next |-> "tryAtCommand", err |-> "nil", retriesLeft |-> rl - 1]
    IN
    IF cmdErr
    THEN (IF rl - 1 > 0 THEN retry @@ [output |-> out]
          ELSE [next |-> "return", err |-> "command", retriesLeft |-> rl - 1, output |-> out])
    ELSE
    LET out2 == out \o resp IN
    IF containsAbortTerm(v, scr.Aborts, resp)
    THEN [next |-> "return", err |-> "abort", retriesLeft |-> rl, output |-> out2]
    ELSE IF step.Response = <<>>
    THEN [next |-> "continue", err |-> "nil", retriesLeft |-> rl, output |-> out2]
    ELSE IF ~containsResponse(v, resp, step.Response)
    THEN (IF rl - 1 > 0 THEN retry @@ [output |-> out2]
          ELSE [next |-> "continue", err |-> "nil", retriesLeft |-> rl - 1, output |-> out2])
    ELSE [next |-> "continue", err |-> "nil", retriesLeft |-> rl, output |-> out2]

\* tryAtCommand that appends a reply to the output only once it is accepted
tryAtCommandAppendsAccepted(v, scr, idx, rl, out, resp, cmdErr) ==
    LET step == scr.Commands[idx]
        retry == [next |-> "tryAtCommand", err |-> "nil", retriesLeft |-> rl - 1]
    IN
    IF cmdErr
    THEN (IF rl - 1 > 0 THEN retry @@ [output |-> out]
          ELSE [next |-> "return", err |-> "command", retriesLeft |-> rl - 1, output |-> out])
    ELSE
    LET out2 == out \o resp IN
    IF containsAbortTerm(v, scr.Aborts, resp)
    THEN [next |-> "return", err |-> "abort", retriesLeft |-> rl, output |-> out]
    ELSE IF step.Response = <<>>
    THEN [next |-> "continue", err |-> "nil", retriesLeft |-> rl, output |-> out2]
    ELSE IF ~containsResponse(v, resp, step.Response)
    THEN (IF rl - 1 > 0 THEN retry @@ [output |-> out]
          ELSE [next |-> "return", err |-> "unexpected", retriesLeft |-> rl - 1, output |-> out])
    ELSE [next |-> "continue", err |-> "nil", retriesLeft |-> rl, output |-> out2]

\* tryAtCommand without the shortcut for an empty expected substring
tryAtCommandNoEmptyShortcut(v, scr, idx, rl, out, resp, cmdErr) ==
    LET step == scr.Commands[idx]
        retry == [next |-> "tryAtCommand", err |-> "nil", retriesLeft |-> rl - 1]
    IN
    IF cmdErr
    THEN (IF rl - 1 > 0 THEN retry @@ [output |-> out]
          ELSE [next |-> "return", err |-> "command", retriesLeft |-> rl - 1, output |-> out])
    ELSE
    LET out2 == out \o resp IN
    IF containsAbortTerm(v, scr.Aborts, resp)
    THEN [next |-> "return", err |-> "abort", retriesLeft |-> rl, output |-> out2]
    ELSE IF ~containsResponse(v, resp, step.Response)
    THEN (IF rl - 1 > 0 THEN retry @@ [output |-> out2]
          ELSE [next |-> "return", err |-> "unexpected", retriesLeft |-> rl - 1, output |-> out2])
    ELSE [next |-> "continue", err |-> "nil", retriesLeft |-> rl, output |-> out2]

\* The body of the loop from the reply on: what RunChatScript does with the
\* reply resp (or the command error cmdErr) to the command of step idx, with
\* rl retries left and out collected so far.  next is "tryAtCommand" (goto
\* tryAtCommand), "continue" (on to the next step) or "return".
tryAtCommand(v, scr, idx, rl, out, resp, cmdErr) ==
    LET step == scr.Commands[idx]
        retry == [next |-> "tryAtCommand", err |-> "nil", retriesLeft |-> rl - 1]
    IN
    IF cmdErr
    THEN (IF rl - 1 > 0 THEN retry @@ [output |-> out]
          ELSE [next |-> "return", err |-> "command", retriesLeft |-> rl - 1, output |-> out])
    ELSE
    LET out2 == out \o resp IN
    IF containsAbortTerm(v, scr.Aborts, resp)
    THEN [next |-> "return", err |-> "abort", retriesLeft |-> rl, output |-> out2]
    ELSE IF step.Response = <<>>
    THEN [next |-> "continue", err |-> "nil", retriesLeft |-> rl, output |-> out2]
    ELSE IF ~containsResponse(v, resp, step.Response)
    THEN (IF rl - 1 > 0 THEN retry @@ [output |-> out2]
          ELSE [next |-> "return", err |-> "unexpected", retriesLeft |-> rl - 1, output |-> out2])
    ELSE [next |-> "continue", err |-> "nil", retriesLeft |-> rl, output |-> out2]

\* the lines a device may answer a step with: the expected text (OK when the
\* step expects nothing), other text, the expected text followed by an ERROR
\* line, and, for a step that expects nothing, no line at all
DeviceReplies(step) ==
    LET expected == IF step.Response = <<>> THEN <<"O", "K">> ELSE step.Response IN
    { <<expected>>,
      << <<"G", "A", "R", "B", "A", "G", "E">> >>,
      <<expected, <<"E", "R", "R", "O", "R">> >> }
    \cup (IF step.Response = <<>> THEN { <<>> } ELSE {})

\* modem.Command fails (at driver only; SendATCommandReturnResponse never does)
CommandErrors(v) == IF v = "at" THEN {FALSE, TRUE} ELSE {FALSE}

\* RunChatScript is called: output and retriesLeft are set up and the loop
\* is entered (an empty script returns at once)
RunChatScript ==
    /\ pc = "call"
    /\ output' = <<>>
    /\ err' = "nil"
    /\ IF Len(script.Commands) = 0
       THEN /\ pc' = "return"
            /\ retriesLeft' = 0
            /\ i' = 0
       ELSE /\ pc' = "tryAtCommand"
            /\ retriesLeft' = script.Commands[1].Retries
            /\ i' = 1
    /\ UNCHANGED <<version, script, sent, rcvd>>
    /\ UNCHANGED nonChatVars

\* the command of step i is written to the channel
SendCommand ==
    /\ pc = "tryAtCommand"
    /\ sent' = Append(sent, [step |-> i, cmd |-> script.Commands[i].Command])
    /\ pc' = "reply"
    /\ UNCHANGED <<version, script, i, retriesLeft, output, err, rcvd>>
    /\ UNCHANGED nonChatVars

\* the reply (or the command error) comes back and the loop body handles it;
\* RunChatScript drops whatever modem.Command hands back next to a command
\* error, so a command error is recorded with no lines
HandleReply ==
    /\ pc = "reply"
    /\ \E cmdErr \in CommandErrors(version) :
       \E lines \in (IF cmdErr THEN { <<>> } ELSE DeviceReplies(script.Commands[i])) :
          LET resp == respOf(version, lines)
              r == tryAtCommand(version, script, i, retriesLeft, output, resp, cmdErr)
          IN
          /\ rcvd' = Append(rcvd, [step |-> i, resp |-> resp, cmdErr |-> cmdErr])
          /\ output' = r.output
          /\ err' = r.err
          /\ IF r.next = "continue"
             THEN IF i < Len(script.Commands)
                  THEN /\ i' = i + 1
                       /\ retriesLeft' = script.Commands[i + 1].Retries
                       /\ pc' = "tryAtCommand"
                  ELSE /\ pc' = "return"
                       /\ UNCHANGED <<i, retriesLeft>>
             ELSE /\ pc' = r.next
                  /\ retriesLeft' = r.retriesLeft
                  /\ UNCHANGED i
    /\ UNCHANGED <<version, script, sent>>
    /\ UNCHANGED nonChatVars

(***************************************************************************)
(* Spec: RunChatScript on a bounded script                                 *)
(***************************************************************************)
ChatSteps ==
    [ Command : {"PING"},
      Response : { <<>>, <<"P", "O", "N", "G">> },
      Retries : 0..MaxRetries ]

AbortSets == { <<>>, << <<"B", "U", "S", "Y">>, <<"E", "R", "R", "O", "R">> >> }

ChatScripts == [ Aborts : AbortSets, Commands : SeqsUpTo(ChatSteps, MaxSteps) ]

InitChat ==
    /\ version \in {"at", "serial"}
    /\ script \in ChatScripts
    /\ pc = "call"
    /\ i = 0
    /\ retriesLeft = 0
    /\ output = <<>>
    /\ err = "nil"
    /\ sent = <<>>
    /\ rcvd = <<>>

Init == ParseIdle /\ NewIdle /\ TcpIdle /\ MoreIdle /\ InitChat

Next == RunChatScript \/ SendCommand \/ HandleReply

Spec == Init /\ [][Next]_vars

(***************************************************************************)
(* Claims about RunChatScript (checked under Spec)                         *)
(***************************************************************************)
StepOf(k) == script.Commands[rcvd[k].step]

\* the k-th reply contains one of the script's abort substrings
ReplyHasAbort(k) ==
    /\ ~rcvd[k].cmdErr
    /\ \E t \in 1..Len(script.Aborts) :
          IF version = "at"
          THEN \E l \in 1..Len(rcvd[k].resp) : Contains(rcvd[k].resp[l], script.Aborts[t])
          ELSE Contains(rcvd[k].resp, script.Aborts[t])

\* the k-th reply contains the expected substring of its step
ReplyHasExpected(k) ==
    /\ ~rcvd[k].cmdErr
    /\ IF version = "at"
       THEN \E l \in 1..Len(rcvd[k].resp) : Contains(rcvd[k].resp[l], StepOf(k).Response)
       ELSE Contains(rcvd[k].resp, StepOf(k).Response)

\* the k-th reply is one that accepts its step
Accepted(k) ==
    /\ ~rcvd[k].cmdErr
    /\ ~ReplyHasAbort(k)
    /\ (StepOf(k).Response = <<>> \/ ReplyHasExpected(k))

\* the k-th reply has no abort term and lacks the non-empty expected substring
Mismatch(k) ==
    /\ ~rcvd[k].cmdErr
    /\ ~ReplyHasAbort(k)
    /\ StepOf(k).Response /= <<>>
    /\ ~ReplyHasExpected(k)

\* how many of the first k attempts were attempts of the step of the k-th
AttemptsUpTo(k) == Cardinality({ j \in 1..k : rcvd[j].step = rcvd[k].step })

SendsOf(s) == Cardinality({ j \in 1..Len(sent) : sent[j].step = s })

C3_MismatchRetriesOrFails ==
    \A k \in 1..Len(rcvd) :
        Mismatch(k) =>
            LET s == rcvd[k].step
                remaining == StepOf(k).Retries - AttemptsUpTo(k)
            IN
            /\ IF remaining > 0
               THEN /\ (Len(rcvd) = k /\ Len(sent) = k) =>
                           (pc = "tryAtCommand" /\ i = s /\ retriesLeft = remaining)
                    /\ Len(sent) > k => sent[k + 1].step = s
               ELSE /\ Len(rcvd) = k
                    /\ Len(sent) = k
                    /\ pc = "return"
                    /\ err = "unexpected"
            /\ StepOf(k).Retries = 0 => SendsOf(s) = 1

\* the first of two steps, with Retries = 2, got two replies without the
\* expected substring: it was sent twice and the run failed
C3_Witness ==
    /\ Len(script.Commands) = 2
    /\ Len(rcvd) = 2
    /\ StepOf(1).Retries = 2
    /\ Mismatch(1)
    /\ Mismatch(2)
    /\ sent[1].step = 1
    /\ sent[2].step = 1
    /\ pc = "return"
    /\ err = "unexpected"

\* C4: commands are written in script order, each the command of its step;
\* the command of step s+1 is written only right after a reply that accepts
\* step s; and the run returns nil exactly when every step was accepted.
C4_InOrderAndNilIffAllAccepted ==
    /\ \A k \in 1..Len(sent) : sent[k].cmd = script.Commands[sent[k].step].Command
    /\ Len(sent) >= 1 => sent[1].step = 1
    /\ \A k \in 1..(Len(sent) - 1) :
          \/ sent[k + 1].step = sent[k].step
          \/ (sent[k + 1].step = sent[k].step + 1 /\ Accepted(k))
    /\ pc = "return" =>
          (err = "nil" <=>
              \A s \in 1..Len(script.Commands) :
                  \E k \in 1..Len(rcvd) : rcvd[k].step = s /\ Accepted(k))

\* a script of two steps succeeded after one resend
C4_Witness ==
    /\ pc = "return"
    /\ err = "nil"
    /\ Len(script.Commands) = 2
    /\ Len(sent) = 3
    /\ sent[3].step = 2

\* the replies among the first k attempts that accepted their step, concatenated
RECURSIVE ConcatAccepted(_)
ConcatAccepted(k) ==
    IF k = 0 THEN <<>>
    ELSE ConcatAccepted(k - 1) \o (IF Accepted(k) THEN rcvd[k].resp ELSE <<>>)

\* the replies received in the first k attempts, concatenated
RECURSIVE ConcatReceived(_)
ConcatReceived(k) ==
    IF k = 0 THEN <<>>
    ELSE ConcatReceived(k - 1) \o (IF rcvd[k].cmdErr THEN <<>> ELSE rcvd[k].resp)

\* C5 as stated: the output of a successful run is the concatenation of
\* exactly one reply per step, the accepted one, without the replies of
\* earlier attempts.
C5_OneReplyPerStep ==
    (pc = "return" /\ err = "nil") => output = ConcatAccepted(Len(rcvd))

\* C5 amended: the output of a successful run is the concatenation, in the
\* order received, of every reply received during the run, the replies of
\* non-matching attempts included.
C5_EveryReplyInOrder ==
    (pc = "return" /\ err = "nil") => output = ConcatReceived(Len(rcvd))

\* a run succeeded after a reply that lacked the expected substring
C5_Witness ==
    /\ pc = "return"
    /\ err = "nil"
    /\ \E k \in 1..Len(rcvd) : Mismatch(k)

\* C6: a step with an empty expected substring is accepted by the first
\* reply it receives, whatever the reply holds short of an abort term (no
\* line at all included): the run goes on to the next step, or returns nil
\* after the last, and the reply costs no retry.
C6_EmptyExpectedAccepted ==
    \A k \in 1..Len(rcvd) :
        (StepOf(k).Response = <<>> /\ ~rcvd[k].cmdErr /\ ~ReplyHasAbort(k)) =>
            LET s == rcvd[k].step
                failed == Cardinality({ j \in 1..k : rcvd[j].step = s /\ rcvd[j].cmdErr })
            IN
            /\ \A j \in 1..(k - 1) : rcvd[j].step = s => rcvd[j].cmdErr
            /\ Len(sent) > k => sent[k + 1].step = s + 1
            /\ (Len(rcvd) = k /\ Len(sent) = k) =>
                  IF s < Len(script.Commands)
                  THEN /\ pc = "tryAtCommand"
                       /\ i = s + 1
                       /\ retriesLeft = script.Commands[s + 1].Retries
                  ELSE /\ pc = "return"
                       /\ err = "nil"
                       /\ retriesLeft = StepOf(k).Retries - failed

\* with the at driver, a reply of no lines to a first step that expects
\* nothing was accepted and the command of the second step was written
C6_Witness ==
    /\ version = "at"
    /\ Len(rcvd) >= 1
    /\ rcvd[1].resp = <<>>
    /\ ~rcvd[1].cmdErr
    /\ StepOf(1).Response = <<>>
    /\ StepOf(1).Retries = MaxRetries
    /\ Len(sent) = 2
    /\ sent[2].step = 2

(***************************************************************************)
(* Replies to +CIPSTATUS the parser is run on                              *)
(***************************************************************************)
StateLine(token) == StatePrefix \o <<" ">> \o token

StateTokens ==
    { <<"I", "P", " ", "I", "N", "I", "T", "I", "A", "L">>,
      <<"I", "P", " ", "S", "T", "A", "R", "T">>,
      <<"I", "P", " ", "C", "O", "N", "F", "I", "G">>,
      <<"I", "P", " ", "G", "P", "R", "S", "A", "C", "T">>,
      <<"I", "P", " ", "S", "T", "A", "T", "U", "S">>,
      <<"T", "C", "P", " ", "C", "O", "N", "N", "E", "C", "T", "I", "N", "G">>,
      <<"U", "D", "P", " ", "C", "O", "N", "N", "E", "C", "T", "I", "N", "G">>,
      <<"S", "E", "R", "V", "E", "R", " ", "L", "I", "S", "T", "E", "N", "I", "N", "G">>,
      <<"I", "P", " ", "P", "R", "O", "C", "E", "S", "S", "I", "N", "G">>,
      <<"C", "O", "N", "N", "E", "C", "T", " ", "O", "K">>,
      <<"T", "C", "P", " ", "C", "L", "O", "S", "I", "N", "G">>,
      <<"U", "D", "P", " ", "C", "L", "O", "S", "I", "N", "G">>,
      <<"T", "C", "P", " ", "C", "L", "O", "S", "E", "D">>,
      <<"U", "D", "P", " ", "C", "L", "O", "S", "E", "D">>,
      <<"P", "D", "P", " ", "D", "E", "A", "C", "T">>,
      \* tokens the table does not hold
      <<"B", "O", "G", "U", "S">>,
      <<"i", "p", " ", "s", "t", "a", "t", "u", "s">>,
      <<"I", "P", " ", " ", "S", "T", "A", "T", "U", "S">>,
      <<>> }

CIPLines ==
    { StateLine(t) : t \in StateTokens }
    \cup
    { \* leading blanks, no blank after the colon, a trailing carriage return
      <<" ", " ">> \o StatePrefix \o <<"I", "P", " ", "S", "T", "A", "T", "U", "S", "\r">>,
      \* blanks around the token
      StatePrefix \o <<" ", " ", "T", "C", "P", " ", "C", "L", "O", "S", "E", "D", " ", "\t">>,
      \* near misses of the prefix
      <<"X">> \o StateLine(<<"I", "P", " ", "S", "T", "A", "R", "T">>),
      <<"s", "t", "a", "t", "e", ":", " ", "I", "P", " ", "S", "T", "A", "R", "T">>,
      <<"S", "T", "A", "T", "E", " ", "I", "P", " ", "S", "T", "A", "R", "T">>,
      \* lines of other kinds
      <<"O", "K">>,
      <<>>,
      <<"C", ":", " ", "0", ",", "\"", "T", "C", "P", "\"", ",", "\"", "C", "L", "O", "S", "E", "D", "\"">>,
      <<"C", ":", " ", "1", ",", "\"", "I", "P", " ", "I", "N", "I", "T", "I", "A", "L", "\"">> }

CIPReplies == SeqsUpTo(CIPLines, MaxLines)

(***************************************************************************)
(* NewSIM7000 (module/sim7000e.go, both drivers)                           *)
(***************************************************************************)
\* NormalCommandResponse(cmd, resp): no retries (the 100 ms timeout is not
\* part of the model)
NormalCommandResponse(cmd, resp) == [Command |-> cmd, Response |-> resp, Retries |-> 0]

\* constructCSTT: the command that sets the APN, with the user name and the
\* password when one of them is given.  prefix is "+CSTT=" or "AT+CSTT=".
constructCSTT(prefix, apn, username, password) ==
    IF username = <<>> /\ password = <<>> THEN <<prefix, apn>>
    ELSE <<prefix, apn, username, password>>

DefaultAborts ==
    << <<"E", "R", "R", "O", "R">>,
       <<"B", "U", "S", "Y">>,
       <<"N", "O", " ", "C", "A", "R", "R", "I", "E", "R">>,
       <<"+", "C", "S", "Q", ":", " ", "9", "9", ",", "9", "9">> >>

\* fmt.Sprintf(`+CSTT: "%s"`, settings.APN)
cSTTReply(apn) == <<"+", "C", "S", "T", "T", ":", " ", "\"">> \o apn \o <<"\"">>

\* defaultChatScript(settings) of the at driver
defaultChatScript(s) ==
    [ Aborts |-> DefaultAborts,
      Commands |-> <<
        NormalCommandResponse("+CSQ", <<"+", "C", "S", "Q", ":", " ">>),
        NormalCommandResponse("+CPIN?", <<"+", "C", "P", "I", "N", ":", " ", "R", "E", "A", "D", "Y">>),
        NormalCommandResponse("+CIPRXGET=1", <<"O", "K">>),
        NormalCommandResponse("+CSTT?", <<"+", "C", "S", "T", "T", ":", " ">>),
        NormalCommandResponse("+CIPSTATUS", StatePrefix \o <<" ", "I", "P", " ", "I", "N", "I", "T", "I", "A", "L">>),
        NormalCommandResponse(constructCSTT("+CSTT=", s.APN, s.Username, s.Password), <<"O", "K">>),
        NormalCommandResponse("+CSTT?", cSTTReply(s.APN)),
        NormalCommandResponse("+CIPSTATUS", StatePrefix \o <<" ", "I", "P", " ", "S", "T", "A", "R", "T">>),
        [Command |-> "+CIICR", Response |-> <<>>, Retries |-> 0],
        NormalCommandResponse("+CIPSTATUS", StatePrefix \o <<" ", "I", "P", " ", "G", "P", "R", "S", "A", "C", "T">>),
        NormalCommandResponse("+CIFSR", <<>>),
        NormalCommandResponse("+CIPSTATUS", StatePrefix \o <<" ", "I", "P", " ", "S", "T", "A", "T", "U", "S">>)
      >> ]

\* the script literal of NewSIM7000 of the serial driver
serialChatScript(s) ==
    [ Aborts |-> DefaultAborts,
      Commands |-> <<
        [Command |-> "AT", Response |-> <<"O", "K">>, Retries |-> 10],
        [Command |-> "AT+CFUN=1,1", Response |-> <<"O", "K">>, Retries |-> 0],
        [Command |-> "AT", Response |-> <<"O", "K">>, Retries |-> 10],
        NormalCommandResponse("ATE0", <<"O", "K">>),
        NormalCommandResponse("AT+CSQ", <<"+", "C", "S", "Q", ":", " ">>),
        NormalCommandResponse("AT+CPIN?", <<"+", "C", "P", "I", "N", ":", " ", "R", "E", "A", "D", "Y">>),
        NormalCommandResponse("AT+CSTT?", <<"+", "C", "S", "T", "T", ":", " ">>),
        NormalCommandResponse("AT+CIPSTATUS", StatePrefix \o <<" ", "I", "P", " ", "I", "N", "I", "T", "I", "A", "L">>),
        NormalCommandResponse(constructCSTT("AT+CSTT=", s.APN, s.Username, s.Password), <<"O", "K">>),
        NormalCommandResponse("AT+CSTT?", cSTTReply(s.APN)),
        NormalCommandResponse("AT+CIPSTATUS", StatePrefix \o <<" ", "I", "P", " ", "S", "T", "A", "R", "T">>),
        [Command |-> "AT+CIICR", Response |-> <<"O", "K">>, Retries |-> 0],
        NormalCommandResponse("AT+CIPSTATUS", StatePrefix \o <<" ", "I", "P", " ", "G", "P", "R", "S", "A", "C", "T">>),
        NormalCommandResponse("AT+CIFSR", <<>>),
        NormalCommandResponse("AT+CIPSTATUS", StatePrefix \o <<" ", "I", "P", " ", "S", "T", "A", "T", "U", "S">>)
      >> ]

\* the script NewSIM7000 runs: settings.ChatScript when the at driver is given
\* one, the default otherwise (the pointer is <<>> for nil, <<script>> if set)
bringUpScript(v, s) ==
    IF v = "at"
    THEN (IF s.ChatScript /= <<>> THEN s.ChatScript[1] ELSE defaultChatScript(s))
    ELSE serialChatScript(s)

\* the switch on the decoded state with IPClosed left out of the case
alreadySetupStatusOnly(st) == st = IPStatus

\* the switch on the decoded state with IPConnectOK added to the case
alreadySetupConnectOKToo(st) == st \in {IPStatus, IPClosed, IPConnectOK}

\* switch state { case IPStatus, IPClosed: return s }
alreadySetup(st) == st \in {IPStatus, IPClosed}

\* GetIPStatus: the reply to +CIPSTATUS, decoded (a command error of the at
\* driver is dropped and whatever lines came are decoded)
GetIPStatus(v, lines) ==
    IF v = "at" THEN ParseCIPSTATUSResp(lines)
    ELSE ParseCIPSTATUSRespBytes(Join(lines, <<"\n">>))

\* the port is opened; on failure NewSIM7000 returns nil.  The at driver
\* then resets the modem (+CFUN=1,1) and initialises it (modem.Init).
OpenPort ==
    /\ npc = "open"
    /\ \E ok \in BOOLEAN :
          IF ok
          THEN /\ npc' = "status"
               /\ nsent' = IF version = "at" THEN <<"+CFUN=1,1", "Init">> ELSE <<>>
               /\ UNCHANGED module
          ELSE /\ npc' = "failed"
               /\ module' = "nil"
               /\ UNCHANGED nsent
    /\ UNCHANGED <<settings, state>>
    /\ UNCHANGED <<parseVars, chatVars, tcpVars, moreVars>>

\* state := s.GetIPStatus()
QueryIPStatus ==
    /\ npc = "status"
    /\ \E lines \in CIPReplies :
          state' = GetIPStatus(version, lines)
    /\ nsent' = Append(nsent, IF version = "at" THEN "+CIPSTATUS" ELSE "AT+CIPSTATUS")
    /\ npc' = "switch"
    /\ UNCHANGED <<settings, module>>
    /\ UNCHANGED <<parseVars, chatVars, tcpVars, moreVars>>

\* case IPStatus, IPClosed: return s
ReturnAlreadySetup ==
    /\ npc = "switch"
    /\ alreadySetup(state)
    /\ module' = "s"
    /\ npc' = "done"
    /\ UNCHANGED <<settings, state, nsent>>
    /\ UNCHANGED <<parseVars, chatVars, tcpVars, moreVars>>

\* otherwise: s.RunChatScript(script) is called
CallRunChatScript ==
    /\ npc = "switch"
    /\ ~alreadySetup(state)
    /\ script' = bringUpScript(version, settings)
    /\ pc' = "call"
    /\ npc' = "script"
    /\ UNCHANGED <<settings, state, module, nsent>>
    /\ UNCHANGED <<version, i, retriesLeft, output, err, sent, rcvd>>
    /\ UNCHANGED <<parseVars, tcpVars, moreVars>>

\* RunChatScript has returned: nil on an error, the module otherwise
ScriptReturned ==
    /\ npc = "script"
    /\ pc = "return"
    /\ module' = IF err /= "nil" THEN "nil" ELSE "s"
    /\ npc' = "done"
    /\ UNCHANGED <<settings, state, nsent>>
    /\ UNCHANGED <<parseVars, chatVars, tcpVars, moreVars>>

(***************************************************************************)
(* SpecNew: NewSIM7000 with either driver                                  *)
(***************************************************************************)
\* the script of the example of the design document: one PING expecting PONG
PingScript ==
    [ Aborts |-> << <<"E", "R", "R", "O", "R">> >>,
      Commands |-> << [Command |-> "PING", Response |-> <<"P", "O", "N", "G">>, Retries |-> 2] >> ]

SettingsSet ==
    [ APN : { <<"i", "n", "t", "e", "r", "n", "e", "t">> },
      Username : { <<>> },
      Password : { <<>> },
      ChatScript : { <<>>, <<PingScript>> } ]

InitNew ==
    /\ ParseIdle
    /\ TcpIdle
    /\ MoreIdle
    /\ version \in {"at", "serial"}
    /\ ChatNotCalled
    /\ settings \in SettingsSet
    /\ (version = "serial" => settings.ChatScript = <<>>)
    /\ npc = "open"
    /\ state = IPStatusUnknown
    /\ module = "none"
    /\ nsent = <<>>

NextNew ==
    \/ OpenPort
    \/ QueryIPStatus
    \/ ReturnAlreadySetup
    \/ CallRunChatScript
    \/ ScriptReturned
    \/ RunChatScript
    \/ SendCommand
    \/ HandleReply

SpecNew == InitNew /\ [][NextNew]_vars

(***************************************************************************)
(* Claims about NewSIM7000 (checked under SpecNew)                         *)
(***************************************************************************)
\* C10: when the state decoded from the +CIPSTATUS reply is IPStatus or
\* IPClosed, NewSIM7000 returns the module and RunChatScript is never
\* called, so no command of the bring-up script is written; for every other
\* decoded state the script is run, and the module is returned exactly when
\* the script returned no error (nil is returned otherwise).
C10_SkipBringUpWhenSetUp ==
    /\ (npc \in {"switch", "script", "done"} /\ state \in {IPStatus, IPClosed}) =>
          /\ pc = "idle"
          /\ sent = <<>>
          /\ npc = "done" => module = "s"
    /\ (npc = "done" /\ state \notin {IPStatus, IPClosed}) =>
          /\ pc = "return"
          /\ script = bringUpScript(version, settings)
          /\ (err = "nil" => module = "s")
          /\ (err /= "nil" => module = "nil")
    /\ module = "s" => npc = "done"

\* the status query decoded IPClosed and the module was returned with no
\* command of the script written
C10_Witness ==
    /\ npc = "done"
    /\ state = IPClosed
    /\ module = "s"
    /\ sent = <<>>
    /\ nsent /= <<>>

(***************************************************************************)
(* SpecParse: the parser applied to a reply                                *)
(***************************************************************************)
InitParse ==
    /\ ChatIdle
    /\ NewIdle
    /\ TcpIdle
    /\ MoreIdle
    /\ pVersion \in {"lines", "bytes"}
    /\ pInput \in CIPReplies
    /\ pResult = IPStatusUnknown
    /\ pDone = FALSE

\* module.ParseCIPSTATUSResp on the reply lines
ParseLines ==
    /\ pVersion = "lines"
    /\ ~pDone
    /\ pResult' = ParseCIPSTATUSResp(pInput)
    /\ pDone' = TRUE
    /\ UNCHANGED <<pVersion, pInput>>
    /\ UNCHANGED nonParseVars

\* tcp.ParseCIPSTATUSResp on the reply as the bytes read from the port
ParseBytes ==
    /\ pVersion = "bytes"
    /\ ~pDone
    /\ pResult' = ParseCIPSTATUSRespBytes(Join(pInput, <<"\n">>))
    /\ pDone' = TRUE
    /\ UNCHANGED <<pVersion, pInput>>
    /\ UNCHANGED nonParseVars

NextParse == ParseLines \/ ParseBytes

SpecParse == InitParse /\ [][NextParse]_vars

(***************************************************************************)
(* Claims about ParseCIPSTATUSResp (checked under SpecParse)               *)
(***************************************************************************)
\* the lines the parser was given: the list itself, or the lines of the bytes
pGivenLines ==
    IF pVersion = "bytes" THEN ScanLines(Join(pInput, <<"\n">>)) ELSE pInput

IsStateLine(l) == HasPrefix(TrimSpace(l), StatePrefix)

TokenOf(l) == TrimSpace(TrimPrefix(TrimSpace(l), StatePrefix))

\* the positions of the first line that starts with "STATE:" (none or one)
FirstStateLine(lines) ==
    { k \in 1..Len(lines) :
        IsStateLine(lines[k]) /\ \A j \in 1..(k - 1) : ~IsStateLine(lines[j]) }

CIPStatusValues ==
    { IPStatusUnknown, IPInitial, IPStart, IPConfig, IPGPRSAct, IPStatus,
      IPProcessing, IPConnectOK, IPClosing, IPClosed, IPPDPDeact }

\* the lookup table as the manual gives it: raw token, coarse state
StateTable ==
    { << <<"I", "P", " ", "I", "N", "I", "T", "I", "A", "L">>, IPInitial >>,
      << <<"I", "P", " ", "S", "T", "A", "R", "T">>, IPStart >>,
      << <<"I", "P", " ", "C", "O", "N", "F", "I", "G">>, IPConfig >>,
      << <<"I", "P", " ", "G", "P", "R", "S", "A", "C", "T">>, IPGPRSAct >>,
      << <<"I", "P", " ", "S", "T", "A", "T", "U", "S">>, IPStatus >>,
      << <<"T", "C", "P", " ", "C", "O", "N", "N", "E", "C", "T", "I", "N", "G">>, IPProcessing >>,
      << <<"U", "D", "P", " ", "C", "O", "N", "N", "E", "C", "T", "I", "N", "G">>, IPProcessing >>,
      << <<"S", "E", "R", "V", "E", "R", " ", "L", "I", "S", "T", "E", "N", "I", "N", "G">>, IPProcessing >>,
      << <<"I", "P", " ", "P", "R", "O", "C", "E", "S", "S", "I", "N", "G">>, IPProcessing >>,
      << <<"C", "O", "N", "N", "E", "C", "T", " ", "O", "K">>, IPConnectOK >>,
      << <<"T", "C", "P", " ", "C", "L", "O", "S", "I", "N", "G">>, IPClosing >>,
      << <<"U", "D", "P", " ", "C", "L", "O", "S", "I", "N", "G">>, IPClosing >>,
      << <<"T", "C", "P", " ", "C", "L", "O", "S", "E", "D">>, IPClosed >>,
      << <<"U", "D", "P", " ", "C", "L", "O", "S", "E", "D">>, IPClosed >>,
      << <<"P", "D", "P", " ", "D", "E", "A", "C", "T">>, IPPDPDeact >> }

TableTokens == { e[1] : e \in StateTable }

\* C7: ParseCIPSTATUSResp is total: for every list of reply lines (the empty
\* list and lists without a "STATE:" line included) it returns one of the
\* eleven CIPStatus values; a reply without a "STATE:" line, and a first
\* "STATE:" line whose token is not in the lookup table, give IPStatusUnknown.
C7_ParseTotal ==
    pDone =>
        /\ pResult \in CIPStatusValues
        /\ (FirstStateLine(pGivenLines) = {} => pResult = IPStatusUnknown)
        /\ \A k \in FirstStateLine(pGivenLines) :
              TokenOf(pGivenLines[k]) \notin TableTokens => pResult = IPStatusUnknown

\* a reply whose first STATE line carries a token the table does not hold,
\* followed by a STATE line with a token it holds, has been parsed
C7_Witness ==
    /\ pDone
    /\ Len(pInput) = 2
    /\ pInput[1] = StateLine(<<"B", "O", "G", "U", "S">>)
    /\ pInput[2] = StateLine(<<"I", "P", " ", "S", "T", "A", "R", "T">>)
    /\ pResult = IPStatusUnknown

\* C8: the token after "STATE:" of the first STATE line, surrounding blanks
\* trimmed, is mapped by the fixed table (IP INITIAL -> IPInitial, ...,
\* {TCP CLOSING, UDP CLOSING} -> IPClosing, {TCP CLOSED, UDP CLOSED} ->
\* IPClosed, PDP DEACT -> IPPDPDeact).
C8_ParseTable ==
    pDone =>
        \A k \in FirstStateLine(pGivenLines) :
            \A e \in StateTable :
                TokenOf(pGivenLines[k]) = e[1] => pResult = e[2]

\* "OK" followed by "STATE: UDP CLOSING" was parsed from bytes as IPClosing
C8_Witness ==
    /\ pDone
    /\ pVersion = "bytes"
    /\ pInput = << <<"O", "K">>,
                   StateLine(<<"U", "D", "P", " ", "C", "L", "O", "S", "I", "N", "G">>) >>
    /\ pResult = IPClosing

\* C9: the first line that starts with "STATE:" decides: the result is the
\* one that line alone gives, whatever follows it (a second STATE line, the
\* "C:" lines of multi-connection mode), and lines before it that lack the
\* prefix are skipped.
C9_FirstStateLineWins ==
    pDone =>
        \A k \in FirstStateLine(pGivenLines) :
            /\ pResult = cipStateOf(TokenOf(pGivenLines[k]))
            /\ pResult = ParseCIPSTATUSResp(<<pGivenLines[k]>>)

\* a STATE line followed by a second STATE line that names another state
C9_Witness ==
    /\ pDone
    /\ Len(pInput) = 2
    /\ pInput[1] = StateLine(<<"I", "P", " ", "S", "T", "A", "R", "T">>)
    /\ pInput[2] = StateLine(<<"T", "C", "P", " ", "C", "L", "O", "S", "E", "D">>)
    /\ pResult = IPStart

(***************************************************************************)
(* More Go string functions (strings.Split, strings.Trim, strconv.ParseInt,*)
(* net.ParseIP on the host strings parseAddress can return)                *)
(***************************************************************************)
\* index of the first occurrence of the character c in s, 0 if there is none
IndexOf(s, c) ==
    IF \E k \in 1..Len(s) : s[k] = c
    THEN CHOOSE k \in 1..Len(s) : s[k] = c /\ \A j \in 1..(k - 1) : s[j] /= c
    ELSE 0

\* strings.Split(s, sep) for a one-character separator
RECURSIVE Split(_, _)
Split(s, sep) ==
    LET k == IndexOf(s, sep) IN
    IF k = 0 THEN <<s>>
    ELSE <<SubSeq(s, 1, k - 1)>> \o Split(SubSeq(s, k + 1, Len(s)), sep)

\* strings.Trim(s, cutset) for a one-character cutset
RECURSIVE TrimChar(_, _)
TrimChar(s, c) ==
    IF s = <<>> THEN s
    ELSE IF Head(s) = c THEN TrimChar(Tail(s), c)
    ELSE IF s[Len(s)] = c THEN TrimChar(SubSeq(s, 1, Len(s) - 1), c)
    ELSE s

Digits == <<"0", "1", "2", "3", "4", "5", "6", "7", "8", "9">>

IsDigit(c) == \E d \in 1..10 : Digits[d] = c

DigitVal(c) == (CHOOSE d \in 1..10 : Digits[d] = c) - 1

IsDigits(s) == s /= <<>> /\ \A k \in 1..Len(s) : IsDigit(s[k])

RECURSIVE DecVal(_)
DecVal(s) == IF s = <<>> THEN 0 ELSE 10 * DecVal(SubSeq(s, 1, Len(s) - 1)) + DigitVal(s[Len(s)])

\* strconv.ParseInt(s, 10, 64): an optional sign and decimal digits
\* (values stay far below 2^63 here)
ParseInt(s) ==
    LET signed == s /= <<>> /\ Head(s) \in {"+", "-"}
        digits == IF signed THEN Tail(s) ELSE s
    IN IF ~IsDigits(digits) THEN [ok |-> FALSE, val |-> 0]
       ELSE [ok |-> TRUE,
             val |-> IF signed /\ Head(s) = "-" THEN 0 - DecVal(digits) ELSE DecVal(digits)]

\* net.ParseIP(s) != nil for a string without a colon: dotted-decimal IPv4,
\* four fields of one to three digits, no leading zero, each at most 255
IsIP(s) ==
    LET f == Split(s, ".") IN
    /\ Len(f) = 4
    /\ \A k \in 1..4 :
          /\ IsDigits(f[k])
          /\ Len(f[k]) <= 3
          /\ (Len(f[k]) > 1 => f[k][1] /= "0")
          /\ DecVal(f[k]) <= 255

(***************************************************************************)
(* tcp: parseAddress, parseService, parseDNSGIPResp, cipstartOK            *)
(***************************************************************************)
\* parseService: the port of a well known service
parseService(service) ==
    CASE service = <<"s", "s", "h">> -> [port |-> 22, ok |-> TRUE]
      [] service = <<"t", "e", "l", "n", "e", "t">> -> [port |-> 23, ok |-> TRUE]
      [] service = <<"s", "m", "t", "p">> -> [port |-> 25, ok |-> TRUE]
      [] service = <<"d", "n", "s">> -> [port |-> 53, ok |-> TRUE]
      [] service = <<"h", "t", "t", "p">> -> [port |-> 80, ok |-> TRUE]
      [] service = <<"h", "t", "t", "p", "s">> -> [port |-> 443, ok |-> TRUE]
      [] service = <<"n", "t", "p">> -> [port |-> 123, ok |-> TRUE]
      [] OTHER -> [port |-> 0, ok |-> FALSE]

\* parseAddress: "host:port" split at the colon; anything else gives ("", 0)
parseAddress(addr) ==
    LET parts == Split(addr, ":")
        none == [ip |-> <<>>, port |-> 0]
    IN
    IF ~Contains(addr, <<":">>) THEN none
    ELSE IF Len(parts) /= 2 THEN none
    ELSE LET p == ParseInt(parts[2])
             svc == parseService(parts[2])
         IN IF p.ok THEN [ip |-> parts[1], port |-> p.val]
            ELSE IF svc.ok THEN [ip |-> parts[1], port |-> svc.port]
            ELSE none

CDNSGIPPrefix == <<"+", "C", "D", "N", "S", "G", "I", "P", ":">>

\* dnsgipLine with a "+CDNSGIP: 0,<code>" line passed over like a line that
\* cannot be parsed
dnsgipLineFailureIsGarbage(raw) ==
    LET line == TrimSpace(raw)
        parts == Split(TrimPrefix(line, CDNSGIPPrefix), ",")
        go == [next |-> TRUE, ip1 |-> <<>>, ip2 |-> <<>>, err |-> "nil"]
    IN
    IF ~HasPrefix(line, CDNSGIPPrefix) THEN go
    ELSE IF Len(parts) < 2 THEN go
    ELSE IF TrimSpace(parts[1]) = <<"0">> THEN go
    ELSE IF TrimSpace(parts[1]) = <<"1">> /\ Len(parts) = 3
    THEN [next |-> FALSE, ip1 |-> TrimChar(TrimSpace(parts[3]), "\""), ip2 |-> <<>>,
          err |-> "nil"]
    ELSE IF TrimSpace(parts[1]) = <<"1">> /\ Len(parts) = 4
    THEN [next |-> FALSE, ip1 |-> TrimChar(TrimSpace(parts[3]), "\""),
          ip2 |-> TrimChar(TrimSpace(parts[4]), "\""), err |-> "nil"]
    ELSE go

\* dnsgipLine with the addresses returned as they stand in the line, the
\* double quotes kept
dnsgipLineKeepsQuotes(raw) ==
    LET line == TrimSpace(raw)
        parts == Split(TrimPrefix(line, CDNSGIPPrefix), ",")
        go == [next |-> TRUE, ip1 |-> <<>>, ip2 |-> <<>>, err |-> "nil"]
    IN
    IF ~HasPrefix(line, CDNSGIPPrefix) THEN go
    ELSE IF Len(parts) < 2 THEN go
    ELSE IF TrimSpace(parts[1]) = <<"0">>
    THEN [next |-> FALSE, ip1 |-> <<>>, ip2 |-> <<>>,
          err |-> "Module reply could not be parsed"]
    ELSE IF TrimSpace(parts[1]) = <<"1">> /\ Len(parts) = 3
    THEN [next |-> FALSE, ip1 |-> TrimSpace(parts[3]), ip2 |-> <<>>, err |-> "nil"]
    ELSE IF TrimSpace(parts[1]) = <<"1">> /\ Len(parts) = 4
    THEN [next |-> FALSE, ip1 |-> TrimSpace(parts[3]), ip2 |-> TrimSpace(parts[4]),
          err |-> "nil"]
    ELSE go

\* what one line of the reply to +CDNSGIP decides: "next" when the loop of
\* parseDNSGIPResp goes on to the following line
dnsgipLine(raw) ==
    LET line == TrimSpace(raw)
        parts == Split(TrimPrefix(line, CDNSGIPPrefix), ",")
        go == [next |-> TRUE, ip1 |-> <<>>, ip2 |-> <<>>, err |-> "nil"]
    IN
    IF ~HasPrefix(line, CDNSGIPPrefix) THEN go
    ELSE IF Len(parts) < 2 THEN go
    ELSE IF TrimSpace(parts[1]) = <<"0">>
    THEN [next |-> FALSE, ip1 |-> <<>>, ip2 |-> <<>>,
          err |-> CASE TrimSpace(parts[2]) = <<"8">> -> "DNS COMMON ERROR"
                    [] TrimSpace(parts[2]) = <<"3">> -> "NETWORK ERROR"
                    [] OTHER -> "Module reply could not be parsed"]
    ELSE IF TrimSpace(parts[1]) = <<"1">> /\ Len(parts) = 3
    THEN [next |-> FALSE, ip1 |-> TrimChar(TrimSpace(parts[3]), "\""), ip2 |-> <<>>,
          err |-> "nil"]
    ELSE IF TrimSpace(parts[1]) = <<"1">> /\ Len(parts) = 4
    THEN [next |-> FALSE, ip1 |-> TrimChar(TrimSpace(parts[3]), "\""),
          ip2 |-> TrimChar(TrimSpace(parts[4]), "\""), err |-> "nil"]
    ELSE go

RECURSIVE parseDNSGIPFrom(_, _)
parseDNSGIPFrom(resp, n) ==
    IF n > Len(resp)
    THEN [ip1 |-> <<>>, ip2 |-> <<>>, err |-> "No IP could be parsed from reply",
          isGarbage |-> TRUE]
    ELSE LET r == dnsgipLine(resp[n]) IN
         IF r.next THEN parseDNSGIPFrom(resp, n + 1)
         ELSE [ip1 |-> r.ip1, ip2 |-> r.ip2, err |-> r.err, isGarbage |-> FALSE]

\* parseDNSGIPResp(resp []string) (ip1, ip2, err, isGarbage)
parseDNSGIPResp(resp) == parseDNSGIPFrom(resp, 1)

ConnectOK == <<"C", "O", "N", "N", "E", "C", "T", " ", "O", "K">>
AlreadyConnect == <<"A", "L", "R", "E", "A", "D", "Y", " ", "C", "O", "N", "N", "E", "C", "T">>
ConnectFail == <<"C", "O", "N", "N", "E", "C", "T", " ", "F", "A", "I", "L">>

\* cipstartOK with a CONNECT FAIL line passed over, so that a later success
\* line still counts and a reply with nothing else is garbage
RECURSIVE cipstartOKAnyLine(_, _)
cipstartOKAnyLine(resp, n) ==
    IF n > Len(resp) THEN [ok |-> FALSE, isGarbage |-> TRUE]
    ELSE IF Contains(resp[n], ConnectOK) THEN [ok |-> TRUE, isGarbage |-> FALSE]
    ELSE IF Contains(resp[n], AlreadyConnect) THEN [ok |-> TRUE, isGarbage |-> FALSE]
    ELSE cipstartOKAnyLine(resp, n + 1)

\* the closure cipstartOK of dialTCP4: (ok, isGarbage), decided by the first
\* line that holds one of the three tokens
RECURSIVE cipstartOKFrom(_, _)
cipstartOKFrom(resp, n) ==
    IF n > Len(resp) THEN [ok |-> FALSE, isGarbage |-> TRUE]
    ELSE IF Contains(resp[n], ConnectOK) THEN [ok |-> TRUE, isGarbage |-> FALSE]
    ELSE IF Contains(resp[n], AlreadyConnect) THEN [ok |-> TRUE, isGarbage |-> FALSE]
    ELSE IF Contains(resp[n], ConnectFail) THEN [ok |-> FALSE, isGarbage |-> FALSE]
    ELSE cipstartOKFrom(resp, n + 1)

cipstartOK(resp) == cipstartOKFrom(resp, 1)

(***************************************************************************)
(* The addresses dialled and the replies of the device to +CDNSGIP and     *)
(* +CIPSTART                                                               *)
(***************************************************************************)
NumericAddresses == { <<"1", ".", "2", ".", "3", ".", "4", ":", "8", "0">>, <<"1", "0", ".", "0", ".", "0", ".", "2", "5", "5", ":", "h", "t", "t", "p">> }

DomainAddresses == { <<"a", ".", "i", "o", ":", "8", "0">>, <<"a", ".", "i", "o", ":", "h", "t", "t", "p", "s">>, <<"1", ".", "2", ".", "3", ":", "8", "0">>, <<"1", ".", "2", ".", "3", ".", "2", "5", "6", ":", "8", "0">> }

\* no port, an unknown service, two colons: parseAddress returns ("", 0)
MalformedAddresses == { <<"a", ".", "i", "o">>, <<"1", ".", "2", ".", "3", ".", "4">>, <<"1", ".", "2", ".", "3", ".", "4", ":", "w", "e", "b">>, <<"a", ".", "i", "o", ":", "8", "0", ":", "8", "0">> }

Addresses == NumericAddresses \cup DomainAddresses \cup MalformedAddresses

DNSResolved ==
    { << <<"+", "C", "D", "N", "S", "G", "I", "P", ":", " ", "1", ",", "\"", "a", ".", "i", "o", "\"", ",", "\"", "5", ".", "6", ".", "7", ".", "8", "\"">> >>,
      << <<"O", "K">>, <<>>, <<"+", "C", "D", "N", "S", "G", "I", "P", ":", " ", "1", ",", "\"", "a", ".", "i", "o", "\"", ",", "\"", "5", ".", "6", ".", "7", ".", "8", "\"", ",", "\"", "5", ".", "6", ".", "7", ".", "9", "\"">> >>,
      << <<"+", "C", "D", "N", "S", "G", "I", "P", ":", " ", "1", ",", "\"", "a", ".", "i", "o", "\"">>, <<" ", "+", "C", "D", "N", "S", "G", "I", "P", ":", "1", " ", ",", " ", "\"", "a", ".", "i", "o", "\"", " ", ",", " ", "\"", "5", ".", "6", ".", "7", ".", "8", "\"", " ", "\r">> >> }

\* well-formed replies that report a resolution failure: +CDNSGIP: 0,<code>
DNSFailed ==
    { << <<"+", "C", "D", "N", "S", "G", "I", "P", ":", " ", "0", ",", "8">> >>,
      << <<"O", "K">>, <<>>, <<"+", "C", "D", "N", "S", "G", "I", "P", ":", " ", "0", ",", "3">> >>,
      << <<"+", "C", "D", "N", "S", "G", "I", "P", ":", "0", ",", "5">> >>,
      << <<"G", "A", "R", "B", "A", "G", "E">>, <<" ", " ", "+", "C", "D", "N", "S", "G", "I", "P", ":", " ", "0", " ", ",", " ", "8", "\r">> >> }

\* replies with no line parseDNSGIPResp can use
DNSGarbage ==
    { <<>>,
      << <<"G", "A", "R", "B", "A", "G", "E">> >>,
      << <<"E", "R", "R", "O", "R">> >>,
      << <<"+", "C", "D", "N", "S", "G", "I", "P", ":">> >>,
      << <<"+", "C", "D", "N", "S", "G", "I", "P", ":", " ", "1", ",", "\"", "a", ".", "i", "o", "\"">> >>,
      << <<"+", "C", "D", "N", "S", "G", "I", "P", ":", " ", "2", ",", "8">> >>,
      << <<"C", "D", "N", "S", "G", "I", "P", ":", " ", "0", ",", "8">> >> }

DNSReplies == DNSResolved \cup DNSFailed \cup DNSGarbage

ConnectReplies ==
    { << <<"O", "K">>, <<>>, <<"C", "O", "N", "N", "E", "C", "T", " ", "O", "K">> >>,
      << <<"A", "L", "R", "E", "A", "D", "Y", " ", "C", "O", "N", "N", "E", "C", "T">> >>,
      << <<"O", "K">>, <<>>, <<"C", "O", "N", "N", "E", "C", "T", " ", "F", "A", "I", "L">> >>,
      << <<"S", "T", "A", "T", "E", ":", " ", "T", "C", "P", " ", "C", "L", "O", "S", "E", "D">>, <<"C", "O", "N", "N", "E", "C", "T", " ", "F", "A", "I", "L">> >>,
      << <<"C", "O", "N", "N", "E", "C", "T", " ", "F", "A", "I", "L">>, <<"C", "O", "N", "N", "E", "C", "T", " ", "O", "K">> >>,
      << <<"C", "O", "N", "N", "E", "C", "T", " ", "O", "K">>, <<"C", "O", "N", "N", "E", "C", "T", " ", "F", "A", "I", "L">> >>,
      << <<"C", "O", "N", "N", "E", "C", "T", " ", "F", "A", "I", "L">>, <<"A", "L", "R", "E", "A", "D", "Y", " ", "C", "O", "N", "N", "E", "C", "T">> >>,
      << <<"C", "O", "N", "N", "E", "C", "T", " ", "O", "K", " ", "C", "O", "N", "N", "E", "C", "T", " ", "F", "A", "I", "L">> >>,
      <<>>,
      << <<"O", "K">> >>,
      << <<"G", "A", "R", "B", "A", "G", "E">> >>,
      << <<"C", "O", "N", "N", "E", "C", "T">> >> }

(***************************************************************************)
(* tcp.GetModule and tcp.dialTCP4                                          *)
(*                                                                         *)
(* The module answers +CDNSGIP and +CIPSTART with whatever lines it likes. *)
(* dialTCP4's two loops have no counter of their own; the histories        *)
(* nDNSGIP, nCIPSTART and nGarbage count up to MaxCount and stay there, so *)
(* that a loop that never ends is a cycle of the state graph.              *)
(***************************************************************************)
MaxCount == 3

Bump(n) == IF n < MaxCount THEN n + 1 ELSE n

\* GetModule: NewSIM7000 may fail (newOK), the registered DNS servers may
\* differ from what +CDNSCFG? reports (differs), and applying them may not be
\* answered with OK (gotOK); then the module is closed again
GetModule(cfg, newOK, differs, gotOK) ==
    IF ~newOK THEN [m |-> "none", err |-> "Failed to bring up module"]
    ELSE IF cfg /= "none" /\ differs /\ ~gotOK
    THEN [m |-> "closed", err |-> "Failed to apply DNS configuration"]
    ELSE [m |-> "open", err |-> "nil"]

\* the test dialTCP4 makes on the host parseAddress returned, with the
\* branches swapped
mustResolveNumeric(host) == IsIP(host)

\* net.ParseIP(ipOrDomain) == nil: the host must be a domain name
mustResolve(host) == ~IsIP(host)

\* dialTCP4 up to its first loop: GetModule, parseAddress, net.ParseIP
DialTCP4 ==
    /\ dpc = "call"
    /\ \E newOK \in BOOLEAN, differs \in BOOLEAN, gotOK \in BOOLEAN :
          LET g == GetModule(dnsCfg, newOK, differs, gotOK)
              a == parseAddress(address)
          IN
          /\ dm' = g.m
          /\ IF g.err /= "nil"
             THEN /\ dpc' = "returned"
                  /\ derr' = g.err
                  /\ UNCHANGED <<ip, port>>
             ELSE /\ derr' = "nil"
                  /\ port' = a.port
                  /\ IF mustResolve(a.ip)
                     THEN /\ dpc' = "resolve"
                          /\ UNCHANGED ip
                     ELSE /\ dpc' = "connect"
                          /\ ip' = a.ip
    /\ UNCHANGED <<address, dnsCfg, nDNSGIP, nCIPSTART, nGarbage, dreply, dconn>>
    /\ UNCHANGED nonDialVars

\* one turn of the resolution loop: +CDNSGIP is sent and its reply parsed
Resolve ==
    /\ dpc = "resolve"
    /\ \E lines \in DNSReplies :
          LET r == parseDNSGIPResp(lines) IN
          /\ nDNSGIP' = Bump(nDNSGIP)
          /\ dreply' = [cmd |-> "+CDNSGIP", lines |-> lines]
          /\ IF r.isGarbage
             THEN UNCHANGED <<dpc, derr, ip>>
             ELSE IF r.err /= "nil"
             THEN /\ dpc' = "returned"
                  /\ derr' = r.err
                  /\ UNCHANGED ip
             ELSE /\ dpc' = "connect"
                  /\ ip' = r.ip1
                  /\ UNCHANGED derr
    /\ UNCHANGED <<address, dnsCfg, dm, port, nCIPSTART, nGarbage, dconn>>
    /\ UNCHANGED nonDialVars

\* one turn of the connect loop: +CIPSTART is sent and its reply classified
Connect ==
    /\ dpc = "connect"
    /\ \E lines \in ConnectReplies :
          LET r == cipstartOK(lines) IN
          /\ nCIPSTART' = Bump(nCIPSTART)
          /\ dreply' = [cmd |-> "+CIPSTART", lines |-> lines]
          /\ IF r.isGarbage
             THEN /\ nGarbage' = Bump(nGarbage)
                  /\ UNCHANGED <<dpc, derr, dconn>>
             ELSE IF ~r.ok
             THEN /\ dpc' = "returned"
                  /\ derr' = "Unable to start tcp connection"
                  /\ UNCHANGED <<nGarbage, dconn>>
             ELSE /\ dpc' = "returned"
                  /\ dconn' = << [m |-> "m",
                                  remoteAddr |-> [IP |-> IF IsIP(ip) THEN ip ELSE <<>>,
                                                  Port |-> port],
                                  ctx |-> "ctx"] >>
                  /\ UNCHANGED <<nGarbage, derr>>
    /\ UNCHANGED <<address, dnsCfg, dm, ip, port, nDNSGIP>>
    /\ UNCHANGED nonDialVars

InitDial ==
    /\ ParseIdle
    /\ ChatIdle
    /\ NewIdle
    /\ WriteIdle
    /\ ReadIdle
    /\ MoreIdle
    /\ address \in Addresses
    /\ dnsCfg \in {"none", "dns1", "both"}
    /\ dpc = "call"
    /\ dm = "none"
    /\ ip = <<>>
    /\ port = 0
    /\ nDNSGIP = 0
    /\ nCIPSTART = 0
    /\ nGarbage = 0
    /\ dreply = [cmd |-> "none", lines |-> <<>>]
    /\ dconn = <<>>
    /\ derr = "nil"

NextDial == DialTCP4 \/ Resolve \/ Connect

SpecDial == InitDial /\ [][NextDial]_vars

\* dialTCP4 keeps running until it returns
SpecDialFair == SpecDial /\ WF_vars(NextDial)

(***************************************************************************)
(* Claims about dialTCP4 (checked under SpecDial and SpecDialFair)         *)
(***************************************************************************)
\* C11 as stated: when the host of the dialled address is a numeric IP,
\* dialTCP4 never sends +CDNSGIP and, having got its module, has sent +CIPSTART
\* exactly once when it returns.
C11_NumericConnectsOnce ==
    address \in NumericAddresses =>
        /\ nDNSGIP = 0
        /\ (dpc = "returned" /\ dm = "open" => nCIPSTART = 1)

\* C11 amended: for an address <numeric IP>:<port number or known service>,
\* dialTCP4 never sends +CDNSGIP; when it returns it has sent +CIPSTART once
\* and once more for every garbage reply to it (so exactly once when the
\* first connect reply is not garbage), and not at all when GetModule failed.
C11_NumericSkipsResolution ==
    address \in NumericAddresses =>
        /\ nDNSGIP = 0
        /\ (dpc = "returned" /\ dm = "open" /\ nCIPSTART < MaxCount =>
                nCIPSTART = nGarbage + 1)
        /\ (dpc = "returned" /\ dm /= "open" => nCIPSTART = 0)

\* a numeric address is connected to after one garbage connect reply
C11_Witness ==
    /\ address \in NumericAddresses
    /\ dpc = "returned"
    /\ dconn /= <<>>
    /\ nDNSGIP = 0
    /\ nGarbage = 1
    /\ nCIPSTART = 2

\* C12: dialTCP4 always terminates: also against a device that answers
\* +CDNSGIP or +CIPSTART with garbage every time it returns in the end.
C12_DialTerminates == <>(dpc = "returned")

\* C13: after a well-formed reply to +CDNSGIP that reports a resolution
\* failure ("+CDNSGIP: 0,<code>") dialTCP4 has returned that error: it does
\* not go back to resend +CDNSGIP, has sent no +CIPSTART and returns no
\* connection.
C13_ResolutionFailureReturned ==
    (dreply.cmd = "+CDNSGIP" /\ dreply.lines \in DNSFailed) =>
        /\ dpc = "returned"
        /\ derr \in {"DNS COMMON ERROR", "NETWORK ERROR", "Module reply could not be parsed"}
        /\ dconn = <<>>
        /\ nCIPSTART = 0

\* a resolution failure arrives after a garbage reply was answered by a resend
C13_Witness ==
    /\ dreply.cmd = "+CDNSGIP"
    /\ dreply.lines \in DNSFailed
    /\ nDNSGIP = 2
    /\ dpc = "returned"
    /\ derr = "DNS COMMON ERROR"

\* what the lines of a connect reply hold
HasConnected(line) == Contains(line, ConnectOK) \/ Contains(line, AlreadyConnect)

HasClassifying(line) == HasConnected(line) \/ Contains(line, ConnectFail)

\* the first line of the reply that holds one of the three tokens
FirstClassifying(lines) ==
    lines[CHOOSE n \in 1..Len(lines) :
              HasClassifying(lines[n]) /\ \A j \in 1..(n - 1) : ~HasClassifying(lines[j])]

Classifiable(lines) == \E n \in 1..Len(lines) : HasClassifying(lines[n])

\* C14 as stated: a connect reply with a line containing CONNECT OK or
\* ALREADY CONNECT yields a connection; one whose first classifying line
\* contains CONNECT FAIL yields an error and no resend; one with none of the
\* tokens causes a resend; a connection is returned only in the first case.
C14_ClassifiedByAnyLine ==
    dreply.cmd = "+CIPSTART" =>
        LET lines == dreply.lines IN
        /\ (\E n \in 1..Len(lines) : HasConnected(lines[n])) =>
               (dpc = "returned" /\ dconn /= <<>> /\ derr = "nil")
        /\ (Classifiable(lines) /\ Contains(FirstClassifying(lines), ConnectFail)) =>
               (dpc = "returned" /\ dconn = <<>> /\ derr /= "nil")
        /\ ~Classifiable(lines) => (dpc = "connect" /\ dconn = <<>>)
        /\ dconn /= <<>> => \E n \in 1..Len(lines) : HasConnected(lines[n])

\* C14 amended: the first line of the connect reply that holds any of the
\* three tokens decides: if it contains CONNECT OK or ALREADY CONNECT the
\* connection is returned; otherwise (it contains only CONNECT FAIL)
\* dialTCP4 returns an error without resending; a reply with no such line is
\* garbage and +CIPSTART is sent again.  A connection is returned only in
\* the first case.
C14_ClassifiedByFirstLine ==
    dreply.cmd = "+CIPSTART" =>
        LET lines == dreply.lines IN
        /\ (Classifiable(lines) /\ HasConnected(FirstClassifying(lines))) =>
               (dpc = "returned" /\ dconn /= <<>> /\ derr = "nil")
        /\ (Classifiable(lines) /\ ~HasConnected(FirstClassifying(lines))) =>
               (dpc = "returned" /\ dconn = <<>> /\ derr /= "nil")
        /\ ~Classifiable(lines) => (dpc = "connect" /\ dconn = <<>> /\ derr = "nil")
        /\ dconn /= <<>> => (Classifiable(lines) /\ HasConnected(FirstClassifying(lines)))

\* a reply whose first classifying line is CONNECT FAIL and whose second line
\* is CONNECT OK has ended the dial with an error, after one garbage reply
C14_Witness ==
    /\ dreply.cmd = "+CIPSTART"
    /\ Len(dreply.lines) = 2
    /\ Contains(dreply.lines[1], ConnectFail)
    /\ Contains(dreply.lines[2], ConnectOK)
    /\ nGarbage = 1
    /\ dpc = "returned"
    /\ derr = "Unable to start tcp connection"

\* C15: when dialTCP4 has returned an error it has returned no connection
\* and the module GetModule opened is closed again.
C15_ErrorLeavesClosed ==
    (dpc = "returned" /\ derr /= "nil") => (dconn = <<>> /\ dm /= "open")

(***************************************************************************)
(* TCPConn.Write (tcp/tcpconn.go)                                          *)
(*                                                                         *)
(* The payload is 1, 2, ..., N, so that a chunk tells which slice of the   *)
(* payload it is.  m.Write hands the whole chunk to the port.  The         *)
(* histories nAnnounce and chunks stop growing at WriteCap, so that the    *)
(* loop of Write, which can go round for ever, is a cycle of the state     *)
(* graph.                                                                  *)
(***************************************************************************)
MaxPayload == 4

WriteCap == MaxPayload + 2

DefaultChunkSize == 1460

SendOKMaxLines == 5

\* SendATCommand's verdict on the response read: bytes.Contains(response, expectedReply)
SendATCommand(response, expectedReply) == Contains(response, expectedReply)

CIPSENDPrefix == <<"+", "C", "I", "P", "S", "E", "N", "D", ":">>

\* the closure parseDataSize of Write: the size of the last +CIPSEND: line
\* before the line OK (0 when it is no number), 1460 when there is no line OK
RECURSIVE parseDataSizeFrom(_, _, _)
parseDataSizeFrom(resp, k, sz) ==
    IF k > Len(resp) THEN DefaultChunkSize
    ELSE IF Contains(resp[k], CIPSENDPrefix)
    THEN LET v == ParseInt(TrimSpace(TrimPrefix(TrimSpace(resp[k]), CIPSENDPrefix)))
         IN parseDataSizeFrom(resp, k + 1, IF v.ok THEN v.val ELSE 0)
    ELSE IF resp[k] = <<"O", "K">> THEN sz
    ELSE parseDataSizeFrom(resp, k + 1, sz)

parseDataSize(resp) == parseDataSizeFrom(resp, 1, 0)

\* checkSendOKFrom with a line SEND FAIL skipped like any other line
RECURSIVE checkSendOKSkipsFail(_, _, _)
checkSendOKSkipsFail(lines, k, maxLines) ==
    IF k > maxLines THEN FALSE
    ELSE IF k > Len(lines) THEN FALSE
    ELSE IF TrimSpace(lines[k]) = <<"S", "E", "N", "D", " ", "O", "K">> THEN TRUE
    ELSE checkSendOKSkipsFail(lines, k + 1, maxLines)

\* checkSendOK from the k-th line the scanner delivers: at most maxLines
\* lines are read; SEND OK is success, SEND FAIL and the end of the input are not
RECURSIVE checkSendOKFrom(_, _, _)
checkSendOKFrom(lines, k, maxLines) ==
    IF k > maxLines THEN FALSE
    ELSE IF k > Len(lines) THEN FALSE
    ELSE IF TrimSpace(lines[k]) = <<"S", "E", "N", "D", " ", "O", "K">> THEN TRUE
    ELSE IF TrimSpace(lines[k]) = <<"S", "E", "N", "D", " ", "F", "A", "I", "L">> THEN FALSE
    ELSE checkSendOKFrom(lines, k + 1, maxLines)

checkSendOK(lines, maxLines) == checkSendOKFrom(lines, 1, maxLines)

\* end of the chunk that starts at index idx: idx+chunkSize, cut at len(b)
chunkEnd(idx, size, len) == IF idx + size > len THEN len ELSE idx + size

\* a history that stops growing at WriteCap
Record(hist, x) == IF Len(hist) < WriteCap THEN Append(hist, x) ELSE hist

Count(c) == IF c < WriteCap THEN c + 1 ELSE c

\* the payloads written
Payloads == { [k \in 1..len |-> k] : len \in 0..MaxPayload }

\* replies to +CIPSEND? (sizes 1, 2, 3, 1460; no line OK; no number)
SizeReplies ==
    { << <<"+", "C", "I", "P", "S", "E", "N", "D", ":", " ", "1">>, <<>>, <<"O", "K">> >>,
      << <<"+", "C", "I", "P", "S", "E", "N", "D", ":", " ", "2">>, <<"O", "K">> >>,
      << <<" ", "+", "C", "I", "P", "S", "E", "N", "D", ":", "3", " ">>, <<"O", "K">> >>,
      << <<"+", "C", "I", "P", "S", "E", "N", "D", ":", " ", "1", "4", "6", "0">>, <<>>, <<"O", "K">> >>,
      << <<"+", "C", "I", "P", "S", "E", "N", "D", ":", " ", "2">> >>,
      << <<"O", "K">> >>,
      << <<"E", "R", "R", "O", "R">> >>,
      <<>> }

\* what is read after +CIPSEND=<size>: the prompt, or something else
PromptGiven == { <<">", " ">>, <<"\r", "\n", ">", " ">> }

PromptRefused == { <<>>, <<"\r", "\n", "E", "R", "R", "O", "R", "\r", "\n">> }

\* the lines that follow a chunk: acknowledged within the five lines scanned
AckGiven ==
    { << <<"S", "E", "N", "D", " ", "O", "K">> >>,
      << <<>>, <<" ", "S", "E", "N", "D", " ", "O", "K", "\r">> >>,
      << <<"x">>, <<"x">>, <<"x">>, <<"x">>, <<"S", "E", "N", "D", " ", "O", "K">> >> }

\* SEND FAIL, or no SEND OK within the five lines scanned
AckMissing ==
    { << <<"S", "E", "N", "D", " ", "F", "A", "I", "L">> >>,
      << <<"D", "A", "T", "A", " ", "A", "C", "C", "E", "P", "T", ":", "1">>, <<"S", "E", "N", "D", " ", "F", "A", "I", "L">>, <<"S", "E", "N", "D", " ", "O", "K">> >>,
      <<>>,
      << <<"S", "E", "N", "D", " ", "O", "K", "1">> >>,
      << <<"x">>, <<"x">>, <<"x">>, <<"x">>, <<"x">>, <<"S", "E", "N", "D", " ", "O", "K">> >> }

\* Write up to the test len(b) > chunkSize: +CIPSEND? is asked
WriteCall ==
    /\ wpc = "call"
    /\ \E resp \in SizeReplies :
          /\ chunkSize' = parseDataSize(resp)
          /\ wpc' = IF Len(wb) > chunkSize' THEN "announce" ELSE "announceWhole"
    /\ UNCHANGED <<wb, wi, tot_n, wn, werr, nAnnounce, chunks, announced, acked, wlast>>
    /\ UNCHANGED nonWriteVars

\* the loop of Write up to checkSendOK: +CIPSEND=<chunkSize> is sent; with
\* the prompt the chunk b[i:end] is written, without it the loop goes round
\* again (continue).  The n of "n, _ := c.m.Write" is a new variable of the
\* inner block: the named result n stays 0.
AnnounceChunk ==
    /\ wpc = "announce"
    /\ \E response \in PromptGiven \cup PromptRefused :
          /\ nAnnounce' = Count(nAnnounce)
          /\ wlast' = [kind |-> "prompt", reply |-> response]
          /\ IF SendATCommand(response, <<">">>)
             THEN LET chunk == SubSeq(wb, wi + 1, chunkEnd(wi, chunkSize, Len(wb))) IN
                  /\ chunks' = Record(chunks, chunk)
                  /\ announced' = Record(announced, chunkSize)
                  /\ tot_n' = tot_n + Len(chunk)
                  /\ wpc' = "ack"
             ELSE UNCHANGED <<chunks, announced, tot_n, wpc>>
    /\ UNCHANGED <<wb, chunkSize, wi, wn, werr, acked>>
    /\ UNCHANGED nonWriteVars

\* the rest of the loop body: checkSendOK, then i += chunkSize
AckChunk ==
    /\ wpc = "ack"
    /\ \E lines \in AckGiven \cup AckMissing :
          /\ wlast' = [kind |-> "ack", reply |-> lines]
          /\ IF ~checkSendOK(lines, SendOKMaxLines)
             THEN /\ wpc' = "returned"
                  /\ werr' = "Sending failed"
                  /\ UNCHANGED <<wi, wn, acked>>
             ELSE /\ acked' = acked + (chunkEnd(wi, chunkSize, Len(wb)) - wi)
                  /\ wi' = wi + chunkSize
                  /\ IF wi' < Len(wb)
                     THEN /\ wpc' = "announce"
                          /\ UNCHANGED <<wn, werr>>
                     ELSE /\ wpc' = "returned"
                          /\ wn' = tot_n
                          /\ werr' = "nil"
    /\ UNCHANGED <<wb, chunkSize, tot_n, nAnnounce, chunks, announced>>
    /\ UNCHANGED nonWriteVars

\* the whole payload fits into one chunk: +CIPSEND=<len(b)> is sent
AnnounceWhole ==
    /\ wpc = "announceWhole"
    /\ \E response \in PromptGiven \cup PromptRefused :
          /\ nAnnounce' = Count(nAnnounce)
          /\ wlast' = [kind |-> "prompt", reply |-> response]
          /\ IF SendATCommand(response, <<">">>)
             THEN /\ chunks' = Record(chunks, wb)
                  /\ announced' = Record(announced, Len(wb))
                  /\ wn' = Len(wb)
                  /\ wpc' = "ackWhole"
                  /\ UNCHANGED werr
             ELSE /\ wpc' = "returned"
                  /\ wn' = 0
                  /\ werr' = "Module not ready to send"
                  /\ UNCHANGED <<chunks, announced>>
    /\ UNCHANGED <<wb, chunkSize, wi, tot_n, acked>>
    /\ UNCHANGED nonWriteVars

\* checkSendOK after the only chunk
AckWhole ==
    /\ wpc = "ackWhole"
    /\ \E lines \in AckGiven \cup AckMissing :
          /\ wlast' = [kind |-> "ack", reply |-> lines]
          /\ wpc' = "returned"
          /\ IF ~checkSendOK(lines, SendOKMaxLines)
             THEN /\ werr' = "Sending failed"
                  /\ UNCHANGED acked
             ELSE /\ werr' = "nil"
                  /\ acked' = Len(wb)
    /\ UNCHANGED <<wb, chunkSize, wi, tot_n, wn, nAnnounce, chunks, announced>>
    /\ UNCHANGED nonWriteVars

InitWrite ==
    /\ ParseIdle
    /\ ChatIdle
    /\ NewIdle
    /\ DialIdle
    /\ ReadIdle
    /\ MoreIdle
    /\ wb \in Payloads
    /\ wpc = "call"
    /\ chunkSize = 0
    /\ wi = 0
    /\ tot_n = 0
    /\ wn = 0
    /\ werr = "nil"
    /\ nAnnounce = 0
    /\ chunks = <<>>
    /\ announced = <<>>
    /\ acked = 0
    /\ wlast = [kind |-> "none", reply |-> <<>>]

NextWrite == WriteCall \/ AnnounceChunk \/ AckChunk \/ AnnounceWhole \/ AckWhole

SpecWrite == InitWrite /\ [][NextWrite]_vars

(***************************************************************************)
(* Claims about TCPConn.Write (checked under SpecWrite)                    *)
(***************************************************************************)
Ceil(a, c) == (a + c - 1) \div c

\* the consecutive slices of at most c bytes that make up the payload
ExpectedChunks(payload, c) ==
    [k \in 1..Ceil(Len(payload), c) |->
        SubSeq(payload, (k - 1) * c + 1,
               IF k * c > Len(payload) THEN Len(payload) ELSE k * c)]

\* C16: a Write of N >= 1 bytes with chunk size C >= 1 that has returned
\* after its last chunk was acknowledged has sent exactly ceil(N/C)
\* +CIPSEND=<size> commands, has written the consecutive slices of the payload
\* of C, ..., C and N-(ceil(N/C)-1)*C bytes, and has returned n = N and nil.
C16_ChunksCoverPayload ==
    ( /\ wpc = "returned"
      /\ wlast.kind = "ack"
      /\ wlast.reply \in AckGiven
      /\ Len(wb) >= 1
      /\ chunkSize >= 1
      /\ nAnnounce < WriteCap ) =>
        /\ nAnnounce = Ceil(Len(wb), chunkSize)
        /\ chunks = ExpectedChunks(wb, chunkSize)
        /\ wn = Len(wb)
        /\ werr = "nil"

\* C17: once a chunk was not acknowledged (SEND FAIL, or no SEND OK within
\* the lines scanned) Write has returned, with an error and with n the number
\* of payload bytes of the chunks acknowledged before.
C17_FailedChunkReportsFlushed ==
    (wlast.kind = "ack" /\ wlast.reply \in AckMissing) =>
        /\ wpc = "returned"
        /\ werr /= "nil"
        /\ wn = acked

\* C18: once a +CIPSEND=<size> command (chunk size at least 1) was not
\* answered with the prompt, Write has returned with an error, whether the
\* payload fits in one chunk or not.
C18_NoPromptFailsWrite ==
    (wlast.kind = "prompt" /\ wlast.reply \in PromptRefused /\ chunkSize >= 1) =>
        /\ wpc = "returned"
        /\ werr /= "nil"

(***************************************************************************)
(* TCPConn.Read and the deadline setters (tcp/tcpconn.go)                  *)
(***************************************************************************)
CIPRXGETColon == <<"+", "C", "I", "P", "R", "X", "G", "E", "T", ":">>

\* parseBytesAvailableCIPRXGET: the count after the first comma of the first
\* line that contains "+CIPRXGET:"
RECURSIVE parseBytesAvailableFrom(_, _)
parseBytesAvailableFrom(resp, k) ==
    IF k > Len(resp) THEN [n |-> 0, err |-> "Unable to parse response"]
    ELSE IF Contains(resp[k], CIPRXGETColon)
    THEN LET parts == Split(resp[k], ",") IN
         IF Len(parts) < 2 THEN [n |-> 0, err |-> "Bad response"]
         ELSE LET v == ParseInt(TrimSpace(parts[2])) IN
              IF v.ok THEN [n |-> v.val, err |-> "nil"]
              ELSE [n |-> 0, err |-> "strconv.ParseInt"]
    ELSE parseBytesAvailableFrom(resp, k + 1)

parseBytesAvailableCIPRXGET(resp) == parseBytesAvailableFrom(resp, 1)

\* parseTCPDataCIPRXGET: the lines after the +CIPRXGET line up to and with
\* the line OK are appended, each with a newline, to the local slice buf; the
\* error tells that the +CIPRXGET line or the line OK is missing
\* the data parser, were a reply without the OK line accepted
RECURSIVE parseTCPDataNoEndCheck(_, _, _, _, _)
parseTCPDataNoEndCheck(resp, k, isStarted, isEnded, buf) ==
    LET done == [buf |-> buf,
                 err |-> IF ~isStarted
                         THEN "Incomplete response to CIPRXGET" ELSE "nil"]
    IN
    IF k > Len(resp) THEN done
    ELSE IF isEnded THEN done
    ELSE LET buf2 == IF isStarted THEN buf \o resp[k] \o <<"\n">> ELSE buf
             line == TrimSpace(resp[k])
         IN IF line = <<"O", "K">> THEN parseTCPDataNoEndCheck(resp, k + 1, isStarted, TRUE, buf2)
            ELSE IF Contains(line, <<"+", "C", "I", "P", "R", "X", "G", "E", "T">>)
            THEN parseTCPDataNoEndCheck(resp, k + 1, TRUE, isEnded, buf2)
            ELSE parseTCPDataNoEndCheck(resp, k + 1, isStarted, isEnded, buf2)

RECURSIVE parseTCPDataFrom(_, _, _, _, _)
parseTCPDataFrom(resp, k, isStarted, isEnded, buf) ==
    LET done == [buf |-> buf,
                 err |-> IF ~isStarted \/ ~isEnded
                         THEN "Incomplete response to CIPRXGET" ELSE "nil"]
    IN
    IF k > Len(resp) THEN done
    ELSE IF isEnded THEN done
    ELSE LET buf2 == IF isStarted THEN buf \o resp[k] \o <<"\n">> ELSE buf
             line == TrimSpace(resp[k])
         IN IF line = <<"O", "K">> THEN parseTCPDataFrom(resp, k + 1, isStarted, TRUE, buf2)
            ELSE IF Contains(line, <<"+", "C", "I", "P", "R", "X", "G", "E", "T">>)
            THEN parseTCPDataFrom(resp, k + 1, TRUE, isEnded, buf2)
            ELSE parseTCPDataFrom(resp, k + 1, isStarted, isEnded, buf2)

parseTCPDataCIPRXGET(resp, buf) == parseTCPDataFrom(resp, 1, FALSE, FALSE, buf)

\* Read after the query, with the data fetched also when no byte is pending
readAfterQueryFetchesOnZero(avail) ==
    IF avail.err /= "nil" THEN [next |-> "returned", n |-> 0, err |-> avail.err]
    ELSE [next |-> "fetch", n |-> 0, err |-> "nil"]

\* what Read does with the count parseBytesAvailableCIPRXGET returned
readAfterQuery(avail) ==
    IF avail.err /= "nil" THEN [next |-> "returned", n |-> 0, err |-> avail.err]
    ELSE IF avail.n = 0 THEN [next |-> "returned", n |-> 0, err |-> "io.EOF"]
    ELSE [next |-> "fetch", n |-> 0, err |-> "nil"]

\* replies to +CIPRXGET=4,1024 that report zero bytes pending
ZeroPending ==
    { << <<"+", "C", "I", "P", "R", "X", "G", "E", "T", ":", " ", "4", ",", "0">>, <<>>, <<"O", "K">> >>,
      << <<"O", "K">>, <<"+", "C", "I", "P", "R", "X", "G", "E", "T", ":", " ", "4", ",", " ", "0", " ">> >> }

PendingReplies ==
    ZeroPending \cup
    { << <<"+", "C", "I", "P", "R", "X", "G", "E", "T", ":", " ", "4", ",", "2">>, <<>>, <<"O", "K">> >>,
      << <<"+", "C", "I", "P", "R", "X", "G", "E", "T", ":", " ", "4", ",", "2", "9", "2", "1">> >>,
      << <<"+", "C", "I", "P", "R", "X", "G", "E", "T", ":", " ", "4">> >>,
      << <<"+", "C", "I", "P", "R", "X", "G", "E", "T", ":", " ", "4", ",", "x">> >>,
      << <<"E", "R", "R", "O", "R">> >>,
      <<>> }

FetchReplies ==
    { << <<"+", "C", "I", "P", "R", "X", "G", "E", "T", ":", " ", "2", ",", "2", ",", "0">>, <<"h", "i">>, <<"O", "K">> >>,
      << <<"+", "C", "I", "P", "R", "X", "G", "E", "T", ":", " ", "2", ",", "2", ",", "0">>, <<"h", "i">> >>,
      << <<"+", "C", "I", "P", "R", "X", "G", "E", "T", ":", " ", "2", ",", "2", ",", "0">>, <<"h">>, <<"i">>, <<"O", "K">>, <<>> >>,
      << <<"h", "i">>, <<"O", "K">> >>,
      << <<"O", "K">>, <<"+", "C", "I", "P", "R", "X", "G", "E", "T", ":", " ", "2", ",", "2", ",", "0">> >>,
      << <<"+", "C", "I", "P", "R", "X", "G", "E", "T", ":", " ", "2", ",", "2", ",", "0">>, <<" ", "O", "K", "\r">> >>,
      <<>> }

\* Read up to the second command: +CIPRXGET=4,1024 is sent and its reply parsed
ReadQuery ==
    /\ rpc \in {"call", "returned"}
    /\ \E resp \in PendingReplies :
          LET r == readAfterQuery(parseBytesAvailableCIPRXGET(resp)) IN
          /\ nQuery' = Bump(nQuery)
          /\ rreply' = resp
          /\ nZero' = IF resp \in ZeroPending THEN Bump(nZero) ELSE 0
          /\ rpc' = r.next
          /\ rn' = r.n
          /\ rerr' = r.err
    /\ rfetch' = [sent |-> FALSE, reply |-> <<>>, buf |-> <<>>]
    /\ UNCHANGED <<conn, rlen, rb, nFetch, cver, nClose, csent, nPortClose, cret>>
    /\ UNCHANGED nonReadVars

\* the rest of Read: +CIPRXGET=2,1024 is sent, its reply parsed, and len(b)
\* returned.  parseTCPDataCIPRXGET is given the slice b by value and appends
\* to it: the lines go behind b[len(b)-1], into the callee's own slice buf,
\* and b[0:len(b)] stays as it was.
ReadFetch ==
    /\ rpc = "fetch"
    /\ \E resp \in FetchReplies :
          LET r == parseTCPDataCIPRXGET(resp, rb) IN
          /\ nFetch' = Bump(nFetch)
          /\ rn' = rlen
          /\ rerr' = r.err
          /\ rpc' = "returned"
          /\ rfetch' = [sent |-> TRUE, reply |-> resp, buf |-> r.buf]
    /\ UNCHANGED <<conn, rlen, rb, rreply, nQuery, nZero, cver, nClose, csent, nPortClose, cret>>
    /\ UNCHANGED nonReadVars

\* the deadlines: 0 is the zero time.Time, 1 another
Deadlines == {0, 1}

SetDeadline ==
    /\ rpc \in {"call", "returned"}
    /\ \E t \in Deadlines :
          conn' = [conn EXCEPT !.readDeadline = t, !.writeDeadline = t]
    /\ UNCHANGED <<rlen, rb, rpc, rn, rerr, rreply, nQuery, nFetch, nZero, rfetch,
                   cver, nClose, csent, nPortClose, cret>>
    /\ UNCHANGED nonReadVars

SetReadDeadline ==
    /\ rpc \in {"call", "returned"}
    /\ \E t \in Deadlines : conn' = [conn EXCEPT !.readDeadline = t]
    /\ UNCHANGED <<rlen, rb, rpc, rn, rerr, rreply, nQuery, nFetch, nZero, rfetch,
                   cver, nClose, csent, nPortClose, cret>>
    /\ UNCHANGED nonReadVars

SetWriteDeadline ==
    /\ rpc \in {"call", "returned"}
    /\ \E t \in Deadlines : conn' = [conn EXCEPT !.writeDeadline = t]
    /\ UNCHANGED <<rlen, rb, rpc, rn, rerr, rreply, nQuery, nFetch, nZero, rfetch,
                   cver, nClose, csent, nPortClose, cret>>
    /\ UNCHANGED nonReadVars

\* the commands a Close has written, remembered up to a bound
RecordCmd(hist, cmds) == IF Len(hist) + Len(cmds) <= 2 * MaxCount THEN hist \o cmds ELSE hist

\* sim7000e.Close of the module version ver, the serial port being open or not:
\* the commands that reach the channel and whether port.Close is called.  The
\* at driver sends +CIPCLOSE and +CIPSHUT and leaves the port alone; the
\* serial driver writes AT+CIPCLOSE and AT+CIPSHUT (a write to a closed port
\* fails) and then closes the port.
moduleClose(ver, portOpen) ==
    IF ver = "at"
    THEN [cmds |-> << <<"+", "C", "I", "P", "C", "L", "O", "S", "E">>, <<"+", "C", "I", "P", "S", "H", "U", "T">> >>, closesPort |-> FALSE]
    ELSE [cmds |-> IF portOpen THEN << <<"A", "T", "+", "C", "I", "P", "C", "L", "O", "S", "E">>, <<"A", "T", "+", "C", "I", "P", "S", "H", "U", "T">> >> ELSE <<>>, closesPort |-> TRUE]

\* TCPConn.Close: c.m.Close() and return nil
Close ==
    /\ rpc \in {"call", "returned"}
    /\ LET r == moduleClose(cver, nPortClose = 0) IN
          /\ csent' = RecordCmd(csent, r.cmds)
          /\ nPortClose' = IF r.closesPort THEN Bump(nPortClose) ELSE nPortClose
    /\ nClose' = Bump(nClose)
    /\ cret' = "nil"
    /\ UNCHANGED <<conn, rlen, rb, rpc, rn, rerr, rreply, nQuery, nFetch, nZero, rfetch, cver>>
    /\ UNCHANGED nonReadVars

\* the session as dialTCP4 returns it: only m, remoteAddr and ctx are set
InitRead ==
    /\ ParseIdle
    /\ ChatIdle
    /\ NewIdle
    /\ DialIdle
    /\ WriteIdle
    /\ MoreIdle
    /\ conn = [m |-> "m", localAddr |-> <<>>,
               remoteAddr |-> [IP |-> <<"1", ".", "2", ".", "3", ".", "4">>, Port |-> 80],
               readDeadline |-> 0, writeDeadline |-> 0, ctx |-> "ctx"]
    /\ rlen \in {0, 4}
    /\ rb = [k \in 1..rlen |-> "NUL"]
    /\ rpc = "call"
    /\ rn = 0
    /\ rerr = "nil"
    /\ rreply = <<>>
    /\ nQuery = 0
    /\ nFetch = 0
    /\ nZero = 0
    /\ rfetch = [sent |-> FALSE, reply |-> <<>>, buf |-> <<>>]
    /\ cver \in {"at", "serial"}
    /\ nClose = 0
    /\ csent = <<>>
    /\ nPortClose = 0
    /\ cret = "none"

NextRead ==
    \/ ReadQuery
    \/ ReadFetch
    \/ SetDeadline
    \/ SetReadDeadline
    \/ SetWriteDeadline
    \/ Close

SpecRead == InitRead /\ [][NextRead]_vars

(***************************************************************************)
(* Claims about TCPConn.Read (checked under SpecRead)                      *)
(***************************************************************************)
\* C19: a Read that found zero bytes pending has returned zero bytes with an
\* outcome other than io.EOF, the outcome of a closed connection.
C19_ZeroPendingIsNotEOF ==
    (rpc = "returned" /\ nZero >= 1) => (rn = 0 /\ rerr /= "io.EOF")

\* C20: a Read that finds zero bytes pending changes no field of the session
\* (module, local and remote address, both deadlines, context) and returns
\* after the +CIPRXGET=4 query without sending the +CIPRXGET=2 fetch; so do
\* any number of them in a row.
C20_ZeroReadsLeaveSession ==
    [][(ReadQuery /\ rreply' \in ZeroPending) =>
          (conn' = conn /\ nFetch' = nFetch /\ rpc' = "returned")]_vars

\* two Reads in a row have found zero bytes pending, on a session whose read
\* deadline was set before, and no fetch was ever sent
C20_Witness ==
    /\ nZero = 2
    /\ nQuery = 2
    /\ nFetch = 0
    /\ rpc = "returned"
    /\ conn.readDeadline = 1

\* C21: a Read that found bytes pending and whose fetch reply has no line
\* holding +CIPRXGET, or no line that is OK once trimmed, has returned an
\* error; it has not returned nil with no data.
HasStartMarker(resp) ==
    \E k \in 1..Len(resp) : Contains(resp[k], <<"+", "C", "I", "P", "R", "X", "G", "E", "T">>)

HasOKLine(resp) ==
    \E k \in 1..Len(resp) : TrimSpace(resp[k]) = <<"O", "K">>

C21_IncompleteFetchIsError ==
    (rpc = "returned" /\ rfetch.sent
       /\ (~HasStartMarker(rfetch.reply) \/ ~HasOKLine(rfetch.reply)))
        => rerr /= "nil"

\* a fetch reply with the +CIPRXGET line and the data but no OK line has been
\* answered with an error
C21_Witness ==
    /\ rpc = "returned"
    /\ rfetch.sent
    /\ HasStartMarker(rfetch.reply)
    /\ ~HasOKLine(rfetch.reply)
    /\ Len(rfetch.reply) = 2
    /\ rerr = "Incomplete response to CIPRXGET"

\* C22: a Close of a session closed before sends no command, closes no port
\* and returns nil.
C22_SecondCloseIsNoOp ==
    [][(Close /\ nClose >= 1) =>
          (csent' = csent /\ nPortClose' = nPortClose /\ cret' = "nil")]_vars

(***************************************************************************)
(* SpecTwo: SendATCommandTwoResponses of the serial driver applied to the   *)
(* bytes ReadATResponse returned                                            *)
(***************************************************************************)
\* ReadATResponse: the lines read before the timeout, joined by "\n"
ReadATResponse(lines) == Join(lines, <<"\n">>)

\* what SendATCommandTwoResponses returns once the command is written (or the
\* write has failed) and the response read
SendATCommandTwoResponses(writeErr, response, expectedReply1, expectedReply2) ==
    IF writeErr
    THEN [reply1 |-> FALSE, reply2 |-> FALSE, err |-> "Failed to write command"]
    ELSE IF Contains(response, expectedReply1)
    THEN [reply1 |-> TRUE, reply2 |-> FALSE, err |-> "nil"]
    ELSE IF Contains(response, expectedReply2)
    THEN [reply1 |-> FALSE, reply2 |-> TRUE, err |-> "nil"]
    ELSE [reply1 |-> FALSE, reply2 |-> FALSE, err |-> "Did not get expected reply"]

\* the lines a device sends and the matchers callers pass
TwoLines == { <<"O", "K">>, <<"E", "R", "R", "O", "R">>, <<">">>, <<"+", "C", "M", "E", " ", "E", "R", "R", "O", "R", ":", " ", "3">> }

TwoMatchers == { <<"O", "K">>, <<"E", "R", "R", "O", "R">>, <<">">> }

InitTwo ==
    /\ DnsIdle
    /\ ParseIdle
    /\ ChatIdle
    /\ NewIdle
    /\ TcpIdle
    /\ ConcIdle
    /\ HttpsIdle
    /\ tResponse \in { ReadATResponse(lines) : lines \in SeqsUpTo(TwoLines, MaxLines) }
    /\ tReply1 \in TwoMatchers
    /\ tReply2 \in TwoMatchers \ {tReply1}
    /\ tWriteErr \in BOOLEAN
    /\ tResult = [reply1 |-> FALSE, reply2 |-> FALSE, err |-> "nil"]
    /\ tDone = FALSE

CallSendATCommandTwoResponses ==
    /\ ~tDone
    /\ tResult' = SendATCommandTwoResponses(tWriteErr, tResponse, tReply1, tReply2)
    /\ tDone' = TRUE
    /\ UNCHANGED <<tResponse, tReply1, tReply2, tWriteErr>>
    /\ UNCHANGED <<parseVars, chatVars, newVars, tcpVars, concVars, httpsVars, dnsVars>>

NextTwo == CallSendATCommandTwoResponses

SpecTwo == InitTwo /\ [][NextTwo]_vars

\* where sub first occurs in s (0-based), Len(s) + 1 when it does not
FirstAt(s, sub) ==
    IF Contains(s, sub)
    THEN CHOOSE k \in 0..Len(s) :
            /\ SubSeq(s, k + 1, k + Len(sub)) = sub
            /\ \A j \in 0..(k - 1) : SubSeq(s, j + 1, j + Len(sub)) /= sub
    ELSE Len(s) + 1

\* C29: when the reply holds both matchers, the one reported is the one that
\* comes first in the reply, whichever was passed first.
C29_EarlierMatcherReported ==
    (tDone /\ ~tWriteErr /\ Contains(tResponse, tReply1) /\ Contains(tResponse, tReply2))
        => /\ tResult.err = "nil"
           /\ tResult.reply1 = (FirstAt(tResponse, tReply1) < FirstAt(tResponse, tReply2))
           /\ tResult.reply2 = (FirstAt(tResponse, tReply2) < FirstAt(tResponse, tReply1))

(***************************************************************************)
(* SpecConc: two callers use one module at the same time.  An operation is  *)
(* the sequence of its steps on the mutex and the channel:                  *)
(*   "lock", "unlock"  s.mutex.Lock(), s.mutex.Unlock()                      *)
(*   "cmd"             a command is written to the channel                   *)
(*   "reply"           the reply to that command is waited for and read      *)
(*   "raw"             raw bytes are written to the channel                  *)
(*   "scan"            the port is read directly for a line                  *)
(* The at driver hands commands to the at library, which runs one command   *)
(* at a time and reads every line of the port in its own reader task; the   *)
(* serial driver writes and reads the port in the calling goroutine.        *)
(***************************************************************************)
MaxWire == 2         \* lines the device has sent that are not read yet

Callers == {1, 2}

\* one chunk of TCPConn.Write: SendATCommand(+CIPSEND=n), m.Write(chunk) and
\* checkSendOK's read of the port, each as the driver does it
Program(ver, op) ==
    IF ver = "at"
    THEN CASE op = "Command" -> <<"lock", "cmd", "reply", "unlock">>
           [] op = "RunChatScript" -> <<"cmd", "reply">>
           [] op = "GetIPStatus" -> <<"cmd", "reply">>
           [] op = "Read" -> <<"lock", "scan", "unlock">>
           [] op = "TCPWrite" -> <<"lock", "cmd", "reply", "unlock",
                                   "lock", "raw", "unlock",
                                   "lock", "scan", "unlock">>
           [] op = "uploadCert" -> <<"cmd", "reply", "cmd", "reply", "raw", "scan",
                                     "cmd", "reply">>
    ELSE CASE op = "SendATCommand" -> <<"cmd", "reply">>
           [] op = "RunChatScript" -> <<"cmd", "reply">>
           [] op = "GetIPStatus" -> <<"cmd", "reply">>
           [] op = "Read" -> <<"scan">>
           [] op = "TCPWrite" -> <<"cmd", "reply", "raw", "scan">>

Operations(ver) ==
    IF ver = "at"
    THEN {"Command", "RunChatScript", "GetIPStatus", "Read", "TCPWrite", "uploadCert"}
    ELSE {"SendATCommand", "RunChatScript", "GetIPStatus", "Read", "TCPWrite"}

\* the step caller c is to take next ("none" when it is in no operation)
stepOf(c) ==
    IF cop[c] = "none" THEN "none" ELSE Program(mver, cop[c])[cstep[c]]

\* caller c has taken its step
advanceOp(c) ==
    IF cstep[c] = Len(Program(mver, cop[c])) THEN [cop EXCEPT ![c] = "none"] ELSE cop

advanceStep(c) ==
    IF cstep[c] = Len(Program(mver, cop[c]))
    THEN [cstep EXCEPT ![c] = 0] ELSE [cstep EXCEPT ![c] = cstep[c] + 1]

\* a caller enters an operation of the module
Begin(c) ==
    /\ cop[c] = "none"
    /\ \E op \in Operations(mver) :
          /\ cop' = [cop EXCEPT ![c] = op]
          /\ cstep' = [cstep EXCEPT ![c] = 1]
    /\ UNCHANGED <<mver, mutex, busy, wire, misread>>
    /\ UNCHANGED <<parseVars, chatVars, newVars, tcpVars, twoVars, httpsVars, dnsVars>>

Lock(c) ==
    /\ stepOf(c) = "lock"
    /\ mutex = 0
    /\ mutex' = c
    /\ cop' = advanceOp(c)
    /\ cstep' = advanceStep(c)
    /\ UNCHANGED <<mver, busy, wire, misread>>
    /\ UNCHANGED <<parseVars, chatVars, newVars, tcpVars, twoVars, httpsVars, dnsVars>>

Unlock(c) ==
    /\ stepOf(c) = "unlock"
    /\ mutex' = 0
    /\ cop' = advanceOp(c)
    /\ cstep' = advanceStep(c)
    /\ UNCHANGED <<mver, busy, wire, misread>>
    /\ UNCHANGED <<parseVars, chatVars, newVars, tcpVars, twoVars, httpsVars, dnsVars>>

\* the command is written and the device answers it.  The at library takes
\* the next command when the one before is done; the serial driver flushes
\* the port's unread input and writes.
WriteCommand(c) ==
    /\ stepOf(c) = "cmd"
    /\ IF mver = "at"
       THEN /\ busy = 0
            /\ Len(wire) < MaxWire
            /\ busy' = c
            /\ wire' = Append(wire, [for |-> c, kind |-> "reply"])
       ELSE /\ busy' = busy
            /\ wire' = << [for |-> c, kind |-> "reply"] >>
    /\ cop' = advanceOp(c)
    /\ cstep' = advanceStep(c)
    /\ UNCHANGED <<mver, mutex, misread>>
    /\ UNCHANGED <<parseVars, chatVars, newVars, tcpVars, twoVars, httpsVars, dnsVars>>

\* raw bytes are written; the device acknowledges them with a line
WriteRaw(c) ==
    /\ stepOf(c) = "raw"
    /\ Len(wire) < MaxWire
    /\ wire' = Append(wire, [for |-> c, kind |-> "ack"])
    /\ cop' = advanceOp(c)
    /\ cstep' = advanceStep(c)
    /\ UNCHANGED <<mver, mutex, busy, misread>>
    /\ UNCHANGED <<parseVars, chatVars, newVars, tcpVars, twoVars, httpsVars, dnsVars>>

\* the device sends an unsolicited line
DeviceIndication ==
    /\ mver = "at"
    /\ Len(wire) < MaxWire
    /\ wire' = Append(wire, [for |-> 0, kind |-> "ind"])
    /\ UNCHANGED <<mver, cop, cstep, mutex, busy, misread>>
    /\ UNCHANGED <<parseVars, chatVars, newVars, tcpVars, twoVars, httpsVars, dnsVars>>

\* the reader task of the at library reads the next line: a reply ends the
\* command that waits for it, an indication goes to its handler
TaskRead ==
    /\ mver = "at"
    /\ wire /= <<>>
    /\ LET h == Head(wire)
           waits == h.kind = "reply" /\ busy = h.for /\ stepOf(h.for) = "reply"
       IN /\ wire' = Tail(wire)
          /\ cop' = IF waits THEN advanceOp(h.for) ELSE cop
          /\ cstep' = IF waits THEN advanceStep(h.for) ELSE cstep
          /\ busy' = IF waits THEN 0 ELSE busy
          /\ misread' = IF h.kind = "ack" THEN "task" ELSE misread
    /\ UNCHANGED <<mver, mutex>>
    /\ UNCHANGED <<parseVars, chatVars, newVars, tcpVars, twoVars, httpsVars, dnsVars>>

\* the command of the at library times out
GiveUp(c) ==
    /\ mver = "at"
    /\ stepOf(c) = "reply"
    /\ busy = c
    /\ busy' = 0
    /\ cop' = advanceOp(c)
    /\ cstep' = advanceStep(c)
    /\ UNCHANGED <<mver, mutex, wire, misread>>
    /\ UNCHANGED <<parseVars, chatVars, newVars, tcpVars, twoVars, httpsVars, dnsVars>>

\* ReadATResponse of the serial driver: every line that arrives before the
\* timeout is read by the caller
ReadReply(c) ==
    /\ mver = "serial"
    /\ stepOf(c) = "reply"
    /\ wire' = <<>>
    /\ misread' = IF \E k \in 1..Len(wire) : wire[k].for /= c THEN "direct" ELSE misread
    /\ cop' = advanceOp(c)
    /\ cstep' = advanceStep(c)
    /\ UNCHANGED <<mver, mutex, busy>>
    /\ UNCHANGED <<parseVars, chatVars, newVars, tcpVars, twoVars, httpsVars, dnsVars>>

\* a direct read of the port: the next line goes to this caller.  The port of
\* the serial driver has a read timeout; the at driver's read blocks.
Scan(c) ==
    /\ stepOf(c) = "scan"
    /\ mver = "at" => wire /= <<>>
    /\ IF wire = <<>>
       THEN UNCHANGED <<wire, misread>>
       ELSE /\ wire' = Tail(wire)
            /\ misread' = IF Head(wire).for = c /\ Head(wire).kind = "ack"
                          THEN misread ELSE "direct"
    /\ cop' = advanceOp(c)
    /\ cstep' = advanceStep(c)
    /\ UNCHANGED <<mver, mutex, busy>>
    /\ UNCHANGED <<parseVars, chatVars, newVars, tcpVars, twoVars, httpsVars, dnsVars>>

InitConc ==
    /\ DnsIdle
    /\ ParseIdle
    /\ ChatIdle
    /\ NewIdle
    /\ TcpIdle
    /\ TwoIdle
    /\ HttpsIdle
    /\ mver \in {"at", "serial"}
    /\ cop = [c \in Callers |-> "none"]
    /\ cstep = [c \in Callers |-> 0]
    /\ mutex = 0
    /\ busy = 0
    /\ wire = <<>>
    /\ misread = "none"

NextConc ==
    \/ \E c \in Callers : Begin(c)
    \/ \E c \in Callers : Lock(c)
    \/ \E c \in Callers : Unlock(c)
    \/ \E c \in Callers : WriteCommand(c)
    \/ \E c \in Callers : WriteRaw(c)
    \/ DeviceIndication
    \/ TaskRead
    \/ \E c \in Callers : GiveUp(c)
    \/ \E c \in Callers : ReadReply(c)
    \/ \E c \in Callers : Scan(c)

SpecConc == InitConc /\ [][NextConc]_vars

\* caller c has written a command and not yet read its reply
Awaiting(c) == stepOf(c) = "reply"

\* C23: no caller's command is written while another caller has written its
\* command and not yet read the reply.
C23_CommandsNotInterleaved ==
    [][\A c \in Callers : WriteCommand(c) =>
          \A d \in Callers \ {c} : ~Awaiting(d)]_vars

\* C24: while the reader task of the at library runs no caller reads the
\* port directly, and no line is read by a reader other than the one waiting
\* for it.
C24_OneReader ==
    /\ mver = "at" => \A c \in Callers : stepOf(c) /= "scan"
    /\ misread = "none"

\* caller c is between the size announcement of a chunk and the reading of
\* its acknowledgement
InChunk(c) ==
    /\ cop[c] = "TCPWrite"
    /\ \E k \in 1..(cstep[c] - 1) : Program(mver, "TCPWrite")[k] = "cmd"

\* C25: while a caller is between the announcement and the acknowledgement of
\* a chunk, no other caller's command or raw bytes are written to the channel.
C25_OneChunkInFlight ==
    [][\A c \in Callers : (WriteCommand(c) \/ WriteRaw(c)) =>
          \A d \in Callers \ {c} : ~InChunk(d)]_vars

(***************************************************************************)
(* SpecHttps: https.NewClient, uploadCert and two RoundTrip callers on the  *)
(* Client it returns.  The at library calls a registered handler, in a      *)
(* goroutine of its own, for every line that begins with the handler's      *)
(* prefix.  A select that finds no case ready blocks, and the first event   *)
(* that makes a case ready decides which case it takes.                     *)
(***************************************************************************)
maxFileSize == 10240

Prefixes == {"+CPIN: READY", "+APP PDP:", "DOWNLOAD", "+SHREQ:", "+SHREAD:"}

Calls == {"rt1", "rt2"}

Running == panicked = "none"

\* at.AddIndication: an error when the prefix has a handler already
AddIndication(registry, prefix, owner) ==
    IF registry[prefix] /= "none"
    THEN [inds |-> registry, err |-> "indication exists"]
    ELSE [inds |-> [registry EXCEPT ![prefix] = owner], err |-> "nil"]

\* at.CancelIndication for each of the prefixes, whoever registered them
CancelIndication(registry, prefixes) ==
    [p \in Prefixes |-> IF p \in prefixes THEN "none" ELSE registry[p]]

\* NewClient returns: the deferred CancelIndication calls run
newClientReturns(registry, result) ==
    /\ ncpc' = "returned"
    /\ ncret' = result
    /\ inds' = CancelIndication(registry, {"+CPIN: READY", "+APP PDP:"})

\* NewClient up to the sleep after +CFUN=1: the modem is restarted, opened and
\* configured (ok), the handler for +CPIN: READY registered and +CFUN=1 sent
NewClientSetup ==
    /\ Running
    /\ ncpc = "call"
    /\ \E ok \in BOOLEAN, cfunOK \in BOOLEAN :
          LET a == AddIndication(inds, "+CPIN: READY", "NewClient") IN
          IF ~ok THEN newClientReturns(inds, "nil") /\ UNCHANGED dupReg
          ELSE /\ dupReg' = (dupReg \/ a.err /= "nil")
               /\ IF a.err /= "nil" \/ ~cfunOK
                  THEN newClientReturns(a.inds, "nil")
                  ELSE ncpc' = "sleepReady" /\ ncret' = ncret /\ inds' = a.inds
    /\ UNCHANGED <<ncsel, nctx, chans, pdpActive, cert, uperr, fsent, rt, panicked>>
    /\ UNCHANGED <<parseVars, chatVars, newVars, tcpVars, twoVars, concVars, dnsVars>>

\* the select on ready and ctx.Done(), and what follows the case it takes up
\* to the sending of +CNACT=1
NewClientSelectReady ==
    /\ Running
    /\ \/ /\ ncpc = "sleepReady"
          /\ LET cases == (IF chans.ready = "closed" THEN {"ready"} ELSE {})
                             \cup (IF nctx THEN {"ctx"} ELSE {})
             IN IF cases = {} THEN ncpc' = "blockedReady" /\ ncsel' = ncsel
                ELSE ncpc' = "wokeReady" /\ ncsel' \in cases
          /\ UNCHANGED <<inds, ncret, dupReg>>
       \/ /\ ncpc = "wokeReady"
          /\ ncsel' = ncsel
          /\ IF ncsel = "ctx"
             THEN newClientReturns(inds, "nil") /\ UNCHANGED dupReg
             ELSE LET a == AddIndication(CancelIndication(inds, {"+CPIN: READY"}),
                                         "+APP PDP:", "NewClient")
                  IN /\ dupReg' = (dupReg \/ a.err /= "nil")
                     /\ IF a.err /= "nil"
                        THEN newClientReturns(a.inds, "nil")
                        ELSE ncpc' = "cnact" /\ ncret' = ncret /\ inds' = a.inds
    /\ UNCHANGED <<nctx, chans, pdpActive, cert, uperr, fsent, rt, panicked>>
    /\ UNCHANGED <<parseVars, chatVars, newVars, tcpVars, twoVars, concVars, dnsVars>>

\* the reply to +CNACT=1, the select on ctx.Done(), the 10 s timer and
\* appPdpChan, and what follows: the pdpActive test, +CNACT?, the Client, and
\* the call of uploadCert when a certificate path is set
NewClientSelectPdp ==
    /\ Running
    /\ \/ /\ ncpc = "cnact"
          /\ \E ok \in BOOLEAN :
                IF ~ok THEN newClientReturns(inds, "nil") /\ ncsel' = ncsel
                ELSE /\ UNCHANGED <<inds, ncret>>
                     /\ LET cases == (IF chans.appPdpChan = "closed" THEN {"appPdp"} ELSE {})
                                        \cup (IF nctx THEN {"ctx"} ELSE {})
                        IN IF cases = {} THEN ncpc' = "blockedPdp" /\ ncsel' = ncsel
                           ELSE ncpc' = "wokePdp" /\ ncsel' \in cases
       \/ /\ ncpc = "wokePdp"
          /\ ncsel' = ncsel
          /\ \E ok \in BOOLEAN :
                IF ncsel /= "appPdp" \/ ~pdpActive \/ ~ok
                THEN newClientReturns(inds, "nil")
                ELSE IF cert.set
                THEN ncpc' = "upload" /\ UNCHANGED <<inds, ncret>>
                ELSE newClientReturns(inds, "c")
    /\ UNCHANGED <<nctx, chans, pdpActive, cert, uperr, fsent, rt, panicked, dupReg>>
    /\ UNCHANGED <<parseVars, chatVars, newVars, tcpVars, twoVars, concVars, dnsVars>>

\* uploadCert up to the sending of +CFSWFILE: +CFSINIT, the deferred
\* +CFSTERM, the reading of the file, the size test, the DOWNLOAD handler
UploadCert ==
    /\ Running
    /\ ncpc = "upload"
    /\ \E initOK \in BOOLEAN, readOK \in BOOLEAN :
          LET a == AddIndication(inds, "DOWNLOAD", "uploadCert") IN
          IF ~initOK
          THEN /\ fsent' = fsent \o <<"+CFSINIT">>
               /\ uperr' = "command error"
               /\ newClientReturns(inds, "nil")
               /\ UNCHANGED dupReg
          ELSE IF ~readOK \/ cert.len > maxFileSize
          THEN /\ fsent' = fsent \o <<"+CFSINIT", "+CFSTERM">>
               /\ uperr' = IF ~readOK THEN "Unable to read certificate file"
                           ELSE "Certificate is too big"
               /\ newClientReturns(inds, "nil")
               /\ UNCHANGED dupReg
          ELSE /\ fsent' = fsent \o <<"+CFSINIT", "+CFSWFILE">>
               /\ dupReg' = (dupReg \/ a.err /= "nil")
               /\ inds' = a.inds
               /\ ncpc' = "cfswfile"
               /\ UNCHANGED <<uperr, ncret>>
    /\ UNCHANGED <<ncsel, nctx, chans, pdpActive, cert, rt, panicked>>
    /\ UNCHANGED <<parseVars, chatVars, newVars, tcpVars, twoVars, concVars, dnsVars>>

\* the select on downloadDone and the 1 s context, and the rest of uploadCert
\* and of NewClient
UploadCertSelect ==
    /\ Running
    /\ \/ /\ ncpc = "cfswfile"
          /\ LET cases == (IF chans.downloadDone = "closed" THEN {"done"} ELSE {})
                             \cup (IF chans.uploadCtx = "closed" THEN {"timeout"} ELSE {})
             IN IF cases = {} THEN ncpc' = "blockedUpload" /\ ncsel' = ncsel
                ELSE ncpc' = "wokeUpload" /\ ncsel' \in cases
          /\ UNCHANGED <<inds, ncret, uperr, fsent>>
       \/ /\ ncpc = "wokeUpload"
          /\ ncsel' = ncsel
          /\ fsent' = fsent \o <<"+CFSTERM">>
          /\ \E ok \in BOOLEAN :
                LET e == IF ncsel = "timeout" THEN "Failed to upload cert"
                         ELSE IF ~ok THEN "command error" ELSE "nil"
                IN /\ uperr' = e
                   /\ newClientReturns(CancelIndication(inds, {"DOWNLOAD"}),
                                       IF e = "nil" THEN "c" ELSE "nil")
    /\ UNCHANGED <<nctx, chans, pdpActive, cert, rt, panicked, dupReg>>
    /\ UNCHANGED <<parseVars, chatVars, newVars, tcpVars, twoVars, concVars, dnsVars>>

\* the context given to NewClient is cancelled
NewClientCancel ==
    /\ Running
    /\ ncpc \notin {"call", "returned"}
    /\ ~nctx
    /\ nctx' = TRUE
    /\ IF ncpc \in {"blockedReady", "blockedPdp"}
       THEN /\ ncpc' = (IF ncpc = "blockedReady" THEN "wokeReady" ELSE "wokePdp")
            /\ ncsel' = "ctx"
       ELSE UNCHANGED <<ncpc, ncsel>>
    /\ UNCHANGED <<inds, ncret, chans, pdpActive, cert, uperr, fsent, rt, panicked, dupReg>>
    /\ UNCHANGED <<parseVars, chatVars, newVars, tcpVars, twoVars, concVars, dnsVars>>

\* the 10 s timer of NewClient fires while it waits for +APP PDP:
PdpTimeout ==
    /\ Running
    /\ ncpc = "blockedPdp"
    /\ ncpc' = "wokePdp"
    /\ ncsel' = "timeout"
    /\ UNCHANGED <<inds, ncret, nctx, chans, pdpActive, cert, uperr, fsent, rt, panicked, dupReg>>
    /\ UNCHANGED <<parseVars, chatVars, newVars, tcpVars, twoVars, concVars, dnsVars>>

\* the 1 s context of uploadCert expires
UploadTimeout ==
    /\ Running
    /\ ncpc \in {"cfswfile", "blockedUpload"}
    /\ chans.uploadCtx = "open"
    /\ chans' = [chans EXCEPT !.uploadCtx = "closed"]
    /\ IF ncpc = "blockedUpload"
       THEN ncpc' = "wokeUpload" /\ ncsel' = "timeout"
       ELSE UNCHANGED <<ncpc, ncsel>>
    /\ UNCHANGED <<inds, ncret, nctx, pdpActive, cert, uperr, fsent, rt, panicked, dupReg>>
    /\ UNCHANGED <<parseVars, chatVars, newVars, tcpVars, twoVars, concVars, dnsVars>>

\* readyHandler: close(ready)
ReadyHandler ==
    /\ Running
    /\ inds["+CPIN: READY"] /= "none"
    /\ IF chans.ready = "closed"
       THEN /\ panicked' = "close of closed channel"
            /\ UNCHANGED <<chans, ncpc, ncsel>>
       ELSE /\ chans' = [chans EXCEPT !.ready = "closed"]
            /\ IF ncpc = "blockedReady"
               THEN ncpc' = "wokeReady" /\ ncsel' = "ready"
               ELSE UNCHANGED <<ncpc, ncsel>>
            /\ UNCHANGED panicked
    /\ UNCHANGED <<inds, ncret, nctx, pdpActive, cert, uperr, fsent, rt, dupReg>>
    /\ UNCHANGED <<parseVars, chatVars, newVars, tcpVars, twoVars, concVars, dnsVars>>

\* the lines an +APP PDP: indication is delivered with
AppPdpLines == { <<>>, <<"+APP PDP: ACTIVE">>, <<"+APP PDP: DEACTIVE">> }

\* appPdpHandler: s[0] is compared, then close(appPdpChan)
AppPdpHandler ==
    /\ Running
    /\ inds["+APP PDP:"] /= "none"
    /\ \E s \in AppPdpLines :
          IF s = <<>>
          THEN /\ panicked' = "index out of range"
               /\ UNCHANGED <<chans, ncpc, ncsel, pdpActive>>
          ELSE /\ pdpActive' = (pdpActive \/ s[1] = "+APP PDP: ACTIVE")
               /\ IF chans.appPdpChan = "closed"
                  THEN /\ panicked' = "close of closed channel"
                       /\ UNCHANGED <<chans, ncpc, ncsel>>
                  ELSE /\ chans' = [chans EXCEPT !.appPdpChan = "closed"]
                       /\ IF ncpc = "blockedPdp"
                          THEN ncpc' = "wokePdp" /\ ncsel' = "appPdp"
                          ELSE UNCHANGED <<ncpc, ncsel>>
                       /\ UNCHANGED panicked
    /\ UNCHANGED <<inds, ncret, nctx, cert, uperr, fsent, rt, dupReg>>
    /\ UNCHANGED <<parseVars, chatVars, newVars, tcpVars, twoVars, concVars, dnsVars>>

\* downloadHandler: c.port.Write(certContents), then close(downloadDone)
DownloadHandler ==
    /\ Running
    /\ inds["DOWNLOAD"] /= "none"
    /\ fsent' = fsent \o <<"certContents">>
    /\ IF chans.downloadDone = "closed"
       THEN /\ panicked' = "close of closed channel"
            /\ UNCHANGED <<chans, ncpc, ncsel>>
       ELSE /\ chans' = [chans EXCEPT !.downloadDone = "closed"]
            /\ IF ncpc = "blockedUpload"
               THEN ncpc' = "wokeUpload" /\ ncsel' = "done"
               ELSE UNCHANGED <<ncpc, ncsel>>
            /\ UNCHANGED panicked
    /\ UNCHANGED <<inds, ncret, nctx, pdpActive, cert, uperr, rt, dupReg>>
    /\ UNCHANGED <<parseVars, chatVars, newVars, tcpVars, twoVars, concVars, dnsVars>>

\* the locals of a roundTrip call as it starts
freshCall ==
    [pc |-> "idle", sel |-> "none", waited |-> "none", err |-> "none", ctxDone |-> FALSE,
     respChan |-> "open", allReadChan |-> "open", shreqErr |-> "nil",
     dataLen |-> 0, dataRead |-> 0, defers |-> {}, connected |-> FALSE, cmds |-> <<>>]

\* roundTrip returns e, were +SHDISC not deferred
roundTripReturnsNoDisconnect(r, cur, registry, e) ==
    /\ rt' = [rt EXCEPT ![r] = [freshCall EXCEPT !.pc = "returned", !.err = e,
                                                 !.sel = cur.sel, !.waited = cur.waited,
                                                 !.connected = cur.connected,
                                                 !.cmds = cur.cmds]]
    /\ inds' = CancelIndication(registry, cur.defers)

\* roundTrip returns e: its deferred calls run, last registered first, the
\* CancelIndication calls and then, if +SHCONN had succeeded, the command
\* +SHDISC.  cmds and connected are kept as the history of the round trip.
roundTripReturns(r, cur, registry, e) ==
    /\ rt' = [rt EXCEPT ![r] = [freshCall EXCEPT !.pc = "returned", !.err = e,
                                                 !.sel = cur.sel, !.waited = cur.waited,
                                                 !.connected = cur.connected,
                                                 !.cmds = IF cur.connected
                                                          THEN Append(cur.cmds, "+SHDISC")
                                                          ELSE cur.cmds]]
    /\ inds' = CancelIndication(registry, cur.defers)

\* the commands roundTrip sends before it registers the +SHREQ: handler, for
\* a request with one header and no body: three +SHCONF, +SHCONN, +SHSTATE?,
\* +SHCHEAD and +SHAHEAD
PrepareCommands ==
    <<"+SHCONF", "+SHCONF", "+SHCONF", "+SHCONN", "+SHSTATE?", "+SHCHEAD", "+SHAHEAD">>

\* the command whose failure (an error, or a reply that is not accepted) ends
\* the preparation; "none" when all of them succeed
PrepareStops == {"+SHCONF", "+SHCONN", "+SHSTATE?", "+SHAHEAD", "none"}

FirstCommand(c) == CHOOSE k \in 1..Len(PrepareCommands) :
                      PrepareCommands[k] = c /\ \A j \in 1..(k - 1) : PrepareCommands[j] /= c

\* what has been sent when the preparation ends at stop, and whether +SHCONN
\* had succeeded by then (defer c.modem.Command("+SHDISC") was reached)
prepare(stop) ==
    LET n == IF stop = "none" THEN Len(PrepareCommands) ELSE FirstCommand(stop) IN
    [cmds |-> SubSeq(PrepareCommands, 1, n),
     connected |-> (stop = "none" \/ n > FirstCommand("+SHCONN"))]

\* the cases of a select that are ready when it is reached
readyCases(cur, chan) ==
    (IF cur[chan] = "closed" THEN {chan} ELSE {})
        \cup (IF cur.ctxDone THEN {"ctx"} ELSE {})

\* roundTrip reaches the select on chan
reachSelect(r, cur, chan, name) ==
    IF readyCases(cur, chan) = {}
    THEN rt' = [rt EXCEPT ![r] = [cur EXCEPT !.pc = "blocked" \o name, !.waited = name]]
    ELSE \E case \in readyCases(cur, chan) :
            rt' = [rt EXCEPT ![r] = [cur EXCEPT !.pc = "woke" \o name, !.sel = case]]

\* roundTrip up to executeRequest: the configuration, +SHCONN, +SHSTATE?,
\* +SHCHEAD and the header, then the +SHREQ: handler and the
\* deferred CancelIndication, which is deferred before the error is tested
RoundTripPrepare(r) ==
    /\ Running
    /\ ncret = "c"
    /\ rt[r].pc \in {"idle", "returned"}
    /\ \E stop \in PrepareStops :
          LET a == AddIndication(inds, "+SHREQ:", r)
              p == prepare(stop)
              begun == [freshCall EXCEPT !.cmds = p.cmds, !.connected = p.connected]
              cur == [begun EXCEPT !.defers = {"+SHREQ:"}]
          IN IF stop /= "none"
             THEN roundTripReturns(r, begun, inds, "command error") /\ UNCHANGED dupReg
             ELSE /\ dupReg' = (dupReg \/ a.err /= "nil")
                  /\ IF a.err /= "nil"
                     THEN roundTripReturns(r, cur, a.inds, a.err)
                     ELSE /\ inds' = a.inds
                          /\ rt' = [rt EXCEPT ![r] = [cur EXCEPT !.pc = "exec"]]
    /\ UNCHANGED <<ncpc, ncsel, ncret, nctx, chans, pdpActive, cert, uperr, fsent, panicked>>
    /\ UNCHANGED <<parseVars, chatVars, newVars, tcpVars, twoVars, concVars, dnsVars>>

\* executeRequest (+SHREQ), the response timer, and the select on the timer,
\* respChan and the request's context
RoundTripExecute(r) ==
    /\ Running
    /\ rt[r].pc = "exec"
    /\ \E ok \in BOOLEAN :
          LET cur == [rt[r] EXCEPT !.cmds = Append(@, "+SHREQ")] IN
          IF ~ok THEN roundTripReturns(r, cur, inds, "Request execution failed")
          ELSE reachSelect(r, cur, "respChan", "SHREQ") /\ UNCHANGED inds
    /\ UNCHANGED <<ncpc, ncsel, ncret, nctx, chans, pdpActive, cert, uperr, fsent, panicked, dupReg>>
    /\ UNCHANGED <<parseVars, chatVars, newVars, tcpVars, twoVars, concVars, dnsVars>>

\* the error the first select's case makes roundTrip return, were cancellation
\* reported as the timeout is
afterSHREQSameError(case, shreqErr) ==
    CASE case = "ctx" -> "no response"
      [] case = "timeout" -> "no response"
      [] OTHER -> shreqErr

\* the error the first select's case makes roundTrip return ("nil": go on)
afterSHREQ(case, shreqErr) ==
    CASE case = "ctx" -> "context done"
      [] case = "timeout" -> "no response"
      [] OTHER -> shreqErr

\* after the first select: return the error, or register the +SHREAD: handler
\* and send +SHREAD, or with no data close allReadChan and reach the second
\* select.  On a timeout shreqErr is written while the handler may write it.
RoundTripAfterSHREQ(r) ==
    /\ Running
    /\ rt[r].pc = "wokeSHREQ"
    /\ \E e \in {afterSHREQ(rt[r].sel, rt[r].shreqErr)}
                  \cup (IF rt[r].sel = "timeout" /\ rt[r].respChan = "closed"
                        THEN {rt[r].shreqErr} ELSE {}) :
          LET a == AddIndication(inds, "+SHREAD:", r) IN
          IF e /= "nil"
          THEN roundTripReturns(r, rt[r], inds, e) /\ UNCHANGED dupReg
          ELSE IF rt[r].dataLen > 0
          THEN /\ dupReg' = (dupReg \/ a.err /= "nil")
               /\ IF a.err /= "nil"
                  THEN roundTripReturns(r, rt[r], a.inds, a.err)
                  ELSE /\ inds' = a.inds
                       /\ rt' = [rt EXCEPT ![r].pc = "shread",
                                           ![r].defers = @ \cup {"+SHREAD:"}]
          ELSE /\ reachSelect(r, [rt[r] EXCEPT !.allReadChan = "closed"],
                              "allReadChan", "SHREAD")
               /\ UNCHANGED <<inds, dupReg>>
    /\ UNCHANGED <<ncpc, ncsel, ncret, nctx, chans, pdpActive, cert, uperr, fsent, panicked>>
    /\ UNCHANGED <<parseVars, chatVars, newVars, tcpVars, twoVars, concVars, dnsVars>>

\* the command +SHREAD, and the select on allReadChan and the context
RoundTripAwaitSHREAD(r) ==
    /\ Running
    /\ rt[r].pc = "shread"
    /\ \E ok \in BOOLEAN :
          LET cur == [rt[r] EXCEPT !.cmds = Append(@, "+SHREAD")] IN
          IF ~ok THEN roundTripReturns(r, cur, inds, "command error")
          ELSE reachSelect(r, cur, "allReadChan", "SHREAD") /\ UNCHANGED inds
    /\ UNCHANGED <<ncpc, ncsel, ncret, nctx, chans, pdpActive, cert, uperr, fsent, panicked, dupReg>>
    /\ UNCHANGED <<parseVars, chatVars, newVars, tcpVars, twoVars, concVars, dnsVars>>

\* after the second select: the response, or the cancellation error
RoundTripAfterSHREAD(r) ==
    /\ Running
    /\ rt[r].pc = "wokeSHREAD"
    /\ roundTripReturns(r, rt[r], inds,
                        IF rt[r].sel = "ctx" THEN "context done" ELSE "nil")
    /\ UNCHANGED <<ncpc, ncsel, ncret, nctx, chans, pdpActive, cert, uperr, fsent, panicked, dupReg>>
    /\ UNCHANGED <<parseVars, chatVars, newVars, tcpVars, twoVars, concVars, dnsVars>>

\* the request's context is cancelled
CtxCancel(r) ==
    /\ Running
    /\ rt[r].pc \notin {"idle", "returned"}
    /\ ~rt[r].ctxDone
    /\ rt' = [rt EXCEPT ![r] =
                 IF rt[r].pc \in {"blockedSHREQ", "blockedSHREAD"}
                 THEN [rt[r] EXCEPT !.ctxDone = TRUE, !.sel = "ctx",
                                    !.pc = "woke" \o rt[r].waited]
                 ELSE [rt[r] EXCEPT !.ctxDone = TRUE]]
    /\ UNCHANGED <<inds, ncpc, ncsel, ncret, nctx, chans, pdpActive, cert, uperr, fsent,
                   panicked, dupReg>>
    /\ UNCHANGED <<parseVars, chatVars, newVars, tcpVars, twoVars, concVars, dnsVars>>

\* the response timer fires while roundTrip waits for +SHREQ:
ResponseTimeout(r) ==
    /\ Running
    /\ rt[r].pc = "blockedSHREQ"
    /\ rt' = [rt EXCEPT ![r].pc = "wokeSHREQ", ![r].sel = "timeout"]
    /\ UNCHANGED <<inds, ncpc, ncsel, ncret, nctx, chans, pdpActive, cert, uperr, fsent,
                   panicked, dupReg>>
    /\ UNCHANGED <<parseVars, chatVars, newVars, tcpVars, twoVars, concVars, dnsVars>>

\* what parseResponse_SHREQ_UNSOLICITED_RESPONSE makes of the lines of a
\* +SHREQ: indication: the data length, or an error and the length untouched
SHREQResults ==
    { [err |-> "nil", dataLen |-> 0], [err |-> "nil", dataLen |-> 2],
      [err |-> "Malformed response to +SHREQ", dataLen |-> 0] }

\* handleSHREQ of the call that registered it: parse, then close(respChan)
HandleSHREQ(r) ==
    /\ Running
    /\ inds["+SHREQ:"] = r
    /\ \E res \in SHREQResults :
          IF rt[r].respChan = "closed"
          THEN /\ panicked' = "close of closed channel"
               /\ rt' = [rt EXCEPT ![r].shreqErr = res.err, ![r].dataLen = res.dataLen]
          ELSE /\ UNCHANGED panicked
               /\ rt' = [rt EXCEPT ![r] =
                    LET cur == [rt[r] EXCEPT !.shreqErr = res.err, !.dataLen = res.dataLen,
                                             !.respChan = "closed"]
                    IN IF rt[r].pc = "blockedSHREQ"
                       THEN [cur EXCEPT !.pc = "wokeSHREQ", !.sel = "respChan"]
                       ELSE cur]
    /\ UNCHANGED <<inds, ncpc, ncsel, ncret, nctx, chans, pdpActive, cert, uperr, fsent, dupReg>>
    /\ UNCHANGED <<parseVars, chatVars, newVars, tcpVars, twoVars, concVars, dnsVars>>

\* readIndicationHandler of the call that registered it: the length of the
\* +SHREAD: line is added, and allReadChan closed once dataLen is reached
ReadIndicationHandler(r) ==
    /\ Running
    /\ inds["+SHREAD:"] = r
    /\ \E length \in {1, 2} :
          LET cur == [rt[r] EXCEPT !.dataRead = @ + length] IN
          IF cur.dataRead < cur.dataLen
          THEN rt' = [rt EXCEPT ![r] = cur] /\ UNCHANGED panicked
          ELSE IF cur.allReadChan = "closed"
          THEN rt' = [rt EXCEPT ![r] = cur] /\ panicked' = "close of closed channel"
          ELSE /\ UNCHANGED panicked
               /\ rt' = [rt EXCEPT ![r] =
                    IF cur.pc = "blockedSHREAD"
                    THEN [cur EXCEPT !.allReadChan = "closed", !.pc = "wokeSHREAD",
                                     !.sel = "allReadChan"]
                    ELSE [cur EXCEPT !.allReadChan = "closed"]]
    /\ UNCHANGED <<inds, ncpc, ncsel, ncret, nctx, chans, pdpActive, cert, uperr, fsent, dupReg>>
    /\ UNCHANGED <<parseVars, chatVars, newVars, tcpVars, twoVars, concVars, dnsVars>>

InitHttps ==
    /\ DnsIdle
    /\ ParseIdle
    /\ ChatIdle
    /\ NewIdle
    /\ TcpIdle
    /\ TwoIdle
    /\ ConcIdle
    /\ inds = [p \in Prefixes |-> "none"]
    /\ ncpc = "call"
    /\ ncsel = "none"
    /\ ncret = "none"
    /\ nctx = FALSE
    /\ chans = [ready |-> "open", appPdpChan |-> "open", downloadDone |-> "open",
                uploadCtx |-> "open"]
    /\ pdpActive = FALSE
    /\ cert \in { [set |-> FALSE, len |-> 0], [set |-> TRUE, len |-> maxFileSize],
                  [set |-> TRUE, len |-> maxFileSize + 1] }
    /\ uperr = "none"
    /\ fsent = <<>>
    /\ rt = [r \in Calls |-> freshCall]
    /\ panicked = "none"
    /\ dupReg = FALSE

NextHttps ==
    \/ NewClientSetup
    \/ NewClientSelectReady
    \/ NewClientSelectPdp
    \/ UploadCert
    \/ UploadCertSelect
    \/ NewClientCancel
    \/ PdpTimeout
    \/ UploadTimeout
    \/ ReadyHandler
    \/ AppPdpHandler
    \/ DownloadHandler
    \/ \E r \in Calls : RoundTripPrepare(r)
    \/ \E r \in Calls : RoundTripExecute(r)
    \/ \E r \in Calls : RoundTripAfterSHREQ(r)
    \/ \E r \in Calls : RoundTripAwaitSHREAD(r)
    \/ \E r \in Calls : RoundTripAfterSHREAD(r)
    \/ \E r \in Calls : CtxCancel(r)
    \/ \E r \in Calls : ResponseTimeout(r)
    \/ \E r \in Calls : HandleSHREQ(r)
    \/ \E r \in Calls : ReadIndicationHandler(r)

SpecHttps == InitHttps /\ [][NextHttps]_vars

(***************************************************************************)
(* Claims about the https Client (checked under SpecHttps)                  *)
(***************************************************************************)
\* C26: when the request's context is cancelled while roundTrip is blocked in
\* the select that waits for +SHREQ: or in the one that waits for +SHREAD:,
\* the select takes the cancellation case and roundTrip's next step is to
\* return "context done"; a response timeout with no indication received
\* makes it return an error other than that one.
C26_CancellationUnblocks ==
    [][\A r \in Calls :
          /\ (rt[r].pc \in {"blockedSHREQ", "blockedSHREAD"} /\ CtxCancel(r))
                => (rt'[r].sel = "ctx" /\ rt'[r].pc = "woke" \o rt[r].waited)
          /\ (rt[r].sel = "ctx" /\ (RoundTripAfterSHREQ(r) \/ RoundTripAfterSHREAD(r)))
                => (rt'[r].pc = "returned" /\ rt'[r].err = "context done")
          /\ (rt[r].sel = "timeout" /\ rt[r].respChan = "open" /\ RoundTripAfterSHREQ(r))
                => (rt'[r].pc = "returned" /\ rt'[r].err \notin {"nil", "context done"})
      ]_vars

\* a call that blocked waiting for +SHREAD: has returned "context done", and
\* the other call, which blocked waiting for +SHREQ:, has returned the error
\* of the timeout
C26_Witness ==
    /\ rt["rt1"].pc = "returned"
    /\ rt["rt1"].waited = "SHREAD"
    /\ rt["rt1"].sel = "ctx"
    /\ rt["rt1"].err = "context done"
    /\ rt["rt2"].pc = "returned"
    /\ rt["rt2"].waited = "SHREQ"
    /\ rt["rt2"].sel = "timeout"
    /\ rt["rt2"].err = "no response"

\* C27: AddIndication is never called for a prefix that has a handler, and an
\* operation that has returned has left no handler registered.
C27_OneHandlerPerPrefix ==
    /\ ~dupReg
    /\ ncpc = "returned" => \A p \in Prefixes : inds[p] \notin {"NewClient", "uploadCert"}
    /\ \A r \in Calls :
          rt[r].pc \in {"idle", "returned"} => \A p \in Prefixes : inds[p] /= r

\* C28: when uploadCert has rejected the certificate as too big, it has
\* written nothing to the channel.
C28_OversizeRejectedBeforeIO ==
    uperr = "Certificate is too big" => fsent = <<>>

\* C30: the program is never ended by a panic.
C30_NoPanic ==
    panicked = "none"

(***************************************************************************)
(* SpecDNS: parseDNSGIPResp applied to a reply to AT+CDNSGIP               *)
(***************************************************************************)
\* tcp.parseDNSGIPResp(b []byte) (ip1, ip2, err): the same scan over
\* bufio.Scanner's lines, without the isGarbage result
parseDNSGIPRespBytes(b) ==
    LET r == parseDNSGIPResp(ScanLines(b)) IN
    [ip1 |-> r.ip1, ip2 |-> r.ip2, err |-> r.err]

\* the parts a +CDNSGIP line is built from
DnsPads == { <<>>, <<" ">> }

DnsNames == { <<"a", ".", "i", "o">> }

DnsIPs == { <<"5", ".", "6", ".", "7", ".", "8">>, <<"9", ".", "9", ".", "9", ".", "9">> }

DnsCodes == { <<"8">>, <<"3">>, <<"5">> }

DnsField(pad, quoted, s) ==
    pad \o (IF quoted THEN <<"\"">> \o s \o <<"\"">> ELSE s) \o pad

\* +CDNSGIP: 1,<name>,<ip1>[,<ip2>]; ip2 = <<>> stands for no fourth field
DnsResolvedLine(lead, pad, quoted, name, ip1, ip2) ==
    CDNSGIPPrefix \o lead \o <<"1">> \o pad \o <<",">>
        \o DnsField(pad, quoted, name) \o <<",">> \o DnsField(pad, quoted, ip1)
        \o (IF ip2 = <<>> THEN <<>> ELSE <<",">> \o DnsField(pad, quoted, ip2))

\* +CDNSGIP: 0,<code>
DnsFailedLine(lead, pad, code) ==
    CDNSGIPPrefix \o lead \o <<"0">> \o pad \o <<",">> \o pad \o code

\* what the device sends before the +CDNSGIP line, and how a line ends
DnsPreambles == { <<>>, << <<"O", "K">>, <<>> >>, << <<"G", "A", "R", "B", "A", "G", "E">> >> }

DnsLineEnds == { <<>>, <<"\r">> }

\* replies with no +CDNSGIP line at all
DnsNoLine == { <<>>, << <<"E", "R", "R", "O", "R">> >>, << <<"O", "K">>, <<>> >>, << <<"C", "D", "N", "S", "G", "I", "P", ":", " ", "0", ",", "8">> >>, << <<"+", "C", "D", "N", "S">>, <<"G", "I", "P", ":", " ", "1", ",", "\"", "a", ".", "i", "o", "\"", ",", "\"", "5", ".", "6", ".", "7", ".", "8", "\"">> >> }

\* replies whose +CDNSGIP line has neither form
DnsOtherLine == { << <<"+", "C", "D", "N", "S", "G", "I", "P", ":">> >>, << <<"+", "C", "D", "N", "S", "G", "I", "P", ":", " ", "1", ",", "\"", "a", ".", "i", "o", "\"">> >>, << <<"+", "C", "D", "N", "S", "G", "I", "P", ":", " ", "2", ",", "8">> >>, << <<"+", "C", "D", "N", "S", "G", "I", "P", ":", " ", "1", ",", "\"", "a", ".", "i", "o", "\"", ",", "\"", "5", ".", "6", ".", "7", ".", "8", "\"", ",", "\"", "9", ".", "9", ".", "9", ".", "9", "\"", ",", "\"", "1", ".", "1", ".", "1", ".", "1", "\"">> >> }

DnsCases ==
    { [given |-> [kind |-> IF ip2 = <<>> THEN "one" ELSE "two", ip1 |-> ip1, ip2 |-> ip2],
       input |-> pre \o << DnsResolvedLine(lead, pad, quoted, name, ip1, ip2) \o end >>] :
          lead \in DnsPads, pad \in DnsPads, quoted \in BOOLEAN, name \in DnsNames,
          ip1 \in DnsIPs, ip2 \in DnsIPs \cup {<<>>}, pre \in DnsPreambles,
          end \in DnsLineEnds }
    \cup
    { [given |-> [kind |-> "failed", ip1 |-> <<>>, ip2 |-> <<>>],
       input |-> pre \o << DnsFailedLine(lead, pad, code) \o end >>] :
          lead \in DnsPads, pad \in DnsPads, code \in DnsCodes, pre \in DnsPreambles,
          end \in DnsLineEnds }
    \cup
    { [given |-> [kind |-> "none", ip1 |-> <<>>, ip2 |-> <<>>], input |-> lines] :
          lines \in DnsNoLine }
    \cup
    { [given |-> [kind |-> "other", ip1 |-> <<>>, ip2 |-> <<>>], input |-> lines] :
          lines \in DnsOtherLine }

InitDNS ==
    /\ ParseIdle
    /\ ChatIdle
    /\ NewIdle
    /\ TcpIdle
    /\ TwoIdle
    /\ ConcIdle
    /\ HttpsIdle
    /\ gVersion \in {"bytes", "lines"}
    /\ \E c \in DnsCases : gGiven = c.given /\ gInput = c.input
    /\ gResult = [ip1 |-> <<>>, ip2 |-> <<>>, err |-> "nil"]
    /\ gDone = FALSE

\* parseDNSGIPResp(resp []string) on the reply lines
ParseDNSLines ==
    /\ gVersion = "lines"
    /\ ~gDone
    /\ gResult' = (LET r == parseDNSGIPResp(gInput) IN
                   [ip1 |-> r.ip1, ip2 |-> r.ip2, err |-> r.err])
    /\ gDone' = TRUE
    /\ UNCHANGED <<gVersion, gGiven, gInput>>
    /\ UNCHANGED <<parseVars, chatVars, newVars, tcpVars, twoVars, concVars, httpsVars>>

\* parseDNSGIPResp(b []byte) on the reply as the bytes read from the port
ParseDNSBytes ==
    /\ gVersion = "bytes"
    /\ ~gDone
    /\ gResult' = parseDNSGIPRespBytes(Join(gInput, <<"\n">>))
    /\ gDone' = TRUE
    /\ UNCHANGED <<gVersion, gGiven, gInput>>
    /\ UNCHANGED <<parseVars, chatVars, newVars, tcpVars, twoVars, concVars, httpsVars>>

NextDNS == ParseDNSLines \/ ParseDNSBytes

SpecDNS == InitDNS /\ [][NextDNS]_vars

(***************************************************************************)
(* Claims about parseDNSGIPResp (checked under SpecDNS)                    *)
(***************************************************************************)
\* C31: for a reply whose +CDNSGIP line is 1,<name>,<ip1> or
\* 1,<name>,<ip1>,<ip2>, parseDNSGIPResp returns the first address and the
\* second (or the empty string), freed of the spaces and the double quotes
\* around them, and a nil error; for a reply with a +CDNSGIP: 0,<code> line
\* or with no +CDNSGIP line it returns empty addresses and an error.
C31_DNSReplyParsed ==
    gDone =>
        /\ gGiven.kind \in {"one", "two"} =>
              gResult = [ip1 |-> gGiven.ip1, ip2 |-> gGiven.ip2, err |-> "nil"]
        /\ gGiven.kind \in {"failed", "none"} =>
              /\ gResult.ip1 = <<>>
              /\ gResult.ip2 = <<>>
              /\ gResult.err /= "nil"

\* a reply read as bytes, with a preamble, whose quoted and padded line holds
\* two addresses, has been parsed
C31_Witness ==
    /\ gDone
    /\ gVersion = "bytes"
    /\ gGiven.kind = "two"
    /\ Len(gInput) = 3
    /\ Contains(gInput[3], <<"\"", " ", ",">>)
    /\ gResult.ip1 = gGiven.ip1
    /\ gResult.ip2 = gGiven.ip2
    /\ gResult.ip2 /= <<>>

(***************************************************************************)
(* More claims about TCPConn.Write (checked under SpecWrite)               *)
(***************************************************************************)
\* C32: for every chunk of a Write, the last, shorter one included, the size
\* announced in the chunk's +CIPSEND=<size> command is the number of raw
\* bytes written for the chunk, and no chunk is longer than the chunk size.
C32_AnnouncedSizeIsChunkLength ==
    \A k \in 1..Len(chunks) :
        /\ k <= Len(announced)
        /\ announced[k] = Len(chunks[k])
        /\ Len(chunks[k]) <= chunkSize

(***************************************************************************)
(* More claims about TCPConn.Read (checked under SpecRead)                 *)
(***************************************************************************)
\* the first line of the reply that holds the start marker +CIPRXGET, and the
\* first line OK behind it (0 when there is none)
StartAt(resp) ==
    IF HasStartMarker(resp)
    THEN CHOOSE k \in 1..Len(resp) :
            /\ Contains(TrimSpace(resp[k]), <<"+", "C", "I", "P", "R", "X", "G", "E", "T">>)
            /\ \A j \in 1..(k - 1) : ~Contains(TrimSpace(resp[j]), <<"+", "C", "I", "P", "R", "X", "G", "E", "T">>)
    ELSE 0

EndAt(resp) ==
    LET from == StartAt(resp)
        oks == { k \in (from + 1)..Len(resp) : TrimSpace(resp[k]) = <<"O", "K">> }
    IN IF from = 0 \/ oks = {} THEN 0
       ELSE CHOOSE k \in oks : \A j \in oks : k <= j

\* the lines from index a to index b, each followed by the line delimiter
RECURSIVE LinesWithDelimiter(_, _, _)
LinesWithDelimiter(resp, a, b) ==
    IF a > b THEN <<>>
    ELSE resp[a] \o <<"\n">> \o LinesWithDelimiter(resp, a + 1, b)

\* what the last fetch appended to the slice it was given
Extracted == SubSeq(rfetch.buf, Len(rb) + 1, Len(rfetch.buf))

FetchParsed == rpc = "returned" /\ rfetch.sent /\ rerr = "nil"

\* C33: the payload Read extracts from a data-fetch reply is exactly the
\* lines strictly between the +CIPRXGET start-marker line and the terminating
\* OK line, in order, each followed by one line delimiter; neither the
\* start-marker line nor the OK line is part of it.
C33_PayloadIsLinesBetweenMarkers ==
    FetchParsed =>
        Extracted = LinesWithDelimiter(rfetch.reply, StartAt(rfetch.reply) + 1,
                                       EndAt(rfetch.reply) - 1)

\* the bytes pending the device reported to the last query
Pending == parseBytesAvailableCIPRXGET(rreply).n

\* C37: on a successful Read into b the count returned is the number of
\* payload bytes extracted from the data-fetch reply, those bytes are in
\* b[0:n], and n exceeds neither len(b) nor the bytes-pending count reported.
C37_ReadReturnsPayload ==
    FetchParsed =>
        /\ rn = Len(Extracted)
        /\ rn <= rlen
        /\ rn <= Pending
        /\ SubSeq(rb, 1, rn) = Extracted

\* the chunk written last counts as acknowledged: Write went on or returned
\* without the error of a failed send
SendAcknowledged == ~(wpc = "returned" /\ werr = "Sending failed")

\* a line SEND OK among the first maxLines lines, with no line SEND FAIL
\* before it
AckExpected(lines, maxLines) ==
    \E k \in 1..Len(lines) :
        /\ k <= maxLines
        /\ TrimSpace(lines[k]) = <<"S", "E", "N", "D", " ", "O", "K">>
        /\ \A j \in 1..(k - 1) : TrimSpace(lines[j]) /= <<"S", "E", "N", "D", " ", "F", "A", "I", "L">>

C36_ChunkSizePositive ==
    [][ /\ (wpc' /= "call" => chunkSize' >= 1)
        /\ ((AckChunk /\ werr' /= "Sending failed") => wi' > wi) ]_vars

(***************************************************************************)
(* SpecFair: RunChatScript when every step that can be taken is taken in   *)
(* the end (the sleep, the write and the read with its timeout all return) *)
(***************************************************************************)
SpecFair == Spec /\ WF_vars(Next)

\* max(1, Retries) of step s, and the sum of it over the first k steps
SendLimit(s) ==
    IF script.Commands[s].Retries > 1 THEN script.Commands[s].Retries ELSE 1

RECURSIVE SendLimitUpTo(_)
SendLimitUpTo(k) == IF k = 0 THEN 0 ELSE SendLimitUpTo(k - 1) + SendLimit(k)

\* C38: RunChatScript always terminates: whatever the script and whatever the
\* device does, the command of step s is sent at most max(1, Retries_s)
\* times, a run sends at most the sum of that over its steps, and the run
\* returns.
C38_ChatScriptTerminates ==
    /\ [](/\ \A s \in 1..Len(script.Commands) : SendsOf(s) <= SendLimit(s)
          /\ Len(sent) <= SendLimitUpTo(Len(script.Commands)))
    /\ <>(pc = "return")

\* a run on the at driver has returned after sending the command of a step
\* as often as it may, a command error among the attempts
C38_Witness ==
    /\ pc = "return"
    /\ version = "at"
    /\ \E s \in 1..Len(script.Commands) :
          /\ script.Commands[s].Retries >= 2
          /\ SendsOf(s) = script.Commands[s].Retries
    /\ \E k \in 1..Len(rcvd) : rcvd[k].cmdErr

(***************************************************************************)
(* SpecHttpsFair: a RoundTrip call that can take a step takes it in the    *)
(* end, and a response timer that is running fires in the end.  Nothing is *)
(* assumed of the device's indications nor of the request's context.       *)
(***************************************************************************)
SpecHttpsFair ==
    /\ SpecHttps
    /\ \A r \in Calls :
          /\ WF_vars(RoundTripExecute(r) \/ RoundTripAfterSHREQ(r)
                        \/ RoundTripAwaitSHREAD(r) \/ RoundTripAfterSHREAD(r))
          /\ WF_vars(ResponseTimeout(r))

\* C35: every RoundTrip call returns in the end, also when the device never
\* delivers the +SHREQ: or +SHREAD: indication awaited and the request's
\* context is never cancelled: each wait is bounded by the response timeout.
C35_RoundTripReturns ==
    \A r \in Calls : (rt[r].pc \notin {"idle", "returned"}) ~> (rt[r].pc = "returned")

\* how often the command c is among cmds
Times(cmds, c) == Cardinality({ k \in 1..Len(cmds) : cmds[k] = c })

\* C39: once +SHCONN has succeeded, +SHDISC is sent exactly once before
\* roundTrip returns, on every path (success, a failed parse, header or body,
\* timeout, cancellation), and after every other command of the round trip.
C39_DisconnectOnceAndLast ==
    \A r \in Calls :
        /\ (rt[r].pc = "returned" /\ rt[r].connected) =>
              /\ Times(rt[r].cmds, "+SHDISC") = 1
              /\ rt[r].cmds[Len(rt[r].cmds)] = "+SHDISC"
        /\ (rt[r].pc \notin {"idle", "returned"}) => Times(rt[r].cmds, "+SHDISC") = 0

\* a round trip that was cancelled while it waited for +SHREAD: has returned,
\* the other one has returned after its timeout
C39_Witness ==
    /\ rt["rt1"].pc = "returned"
    /\ rt["rt1"].connected
    /\ rt["rt1"].err = "context done"
    /\ rt["rt1"].cmds = PrepareCommands \o <<"+SHREQ", "+SHREAD", "+SHDISC">>
    /\ rt["rt2"].pc = "returned"
    /\ rt["rt2"].err = "no response"
    /\ rt["rt2"].cmds = PrepareCommands \o <<"+SHREQ", "+SHDISC">>

====
